---- MODULE Spec2Model ----
(***************************************************************************)
(* Trade-decision and position-risk pipeline of autotraderx:               *)
(*   SignalFilter (services/signal_filter.py), EmergencyGuard              *)
(*   (trading/emergency.py), TradingEngine.decide and TradeExecutor.execute *)
(*   (trading/engine.py), check_and_manage_positions and the main cycle's   *)
(*   reconciliation (tasks/trading.py), sync_positions (scripts).           *)
(*                                                                          *)
(* Number representation.  Probabilities and confidences are integer        *)
(* percents (0.92 -> 92).  investment_ratio is an integer percent.          *)
(* max_loss_acceptable / take_profit_target are integer per-mille.          *)
(* Prices are integer KRW; stop_loss and take_profit of a position are      *)
(* stored multiplied by 1000 so that price * 0.995, price * 0.98 and        *)
(* entry * 1.002 are exact.  KRW order amounts are carried multiplied by    *)
(* 1000 for the same reason (available_balance * 0.995).                    *)
(***************************************************************************)
EXTENDS Integers, Sequences, FiniteSets, TLC

VARIABLES
    config,           \* AutoTradingConfig row: "absent" | "inactive" | "active"
    last_signal,      \* Redis key signal:last:<market>       ("NONE" = no key)
    last_confidence,  \* Redis key signal:confidence:<market> (-1 = no key)
    positions,        \* trade_positions table, rows in insertion order
    holdings,         \* exchange: coin balance per market
    now,              \* wall clock, minutes
    out,              \* what the last operation returned / did
    emergency_orders  \* exchange: minute of the last order of the emergency
                      \* trader per market (-1 = none)

vars == <<config, last_signal, last_confidence, positions, holdings, now, out,
          emergency_orders>>

----------------------------------------------------------------------------
(* Bounds and input domains *)

MaxRows == 2

Markets == {"KRW-BTC", "KRW-ETH"}
NoSignal == "NONE"
NoKey == -1
Actions == {"BUY", "SELL", "HOLD"}

Min(a, b) == IF a <= b THEN a ELSE b
Max(a, b) == IF a >= b THEN a ELSE b

----------------------------------------------------------------------------
(* SignalFilter *)

\* get_last_signal: GET signal:last:<market>; a Redis error is logged and
\* answered as None.
get_last_signal(ls, market, redis_ok) ==
    IF redis_ok THEN ls[market] ELSE NoSignal

\* get_last_confidence: float(GET signal:confidence:<market>), 0.0 when the
\* key is missing or Redis fails.
get_last_confidence(lc, market, redis_ok) ==
    IF redis_ok /\ lc[market] # NoKey THEN lc[market] ELSE 0

\* Variant: the reversal branch (lines 123-126) is missing, so a direction
\* change falls through to the confidence checks.
should_allow_trade_no_reversal(ls, lc, market, current_signal, confidence, rs, rc) ==
    IF current_signal = "HOLD"
    THEN [allowed |-> FALSE, reason |-> "hold"]
    ELSE LET last == get_last_signal(ls, market, rs) IN
         IF last = NoSignal
         THEN [allowed |-> TRUE, reason |-> "first"]
         ELSE LET lastc == get_last_confidence(lc, market, rc) IN
              IF lastc >= 90
              THEN [allowed |-> FALSE, reason |-> "top_confidence"]
              ELSE IF current_signal = "BUY" /\ confidence >= 70
              THEN [allowed |-> TRUE, reason |-> "continued_buy"]
              ELSE IF current_signal = "SELL" /\ confidence >= 75
              THEN [allowed |-> TRUE, reason |-> "continued_sell"]
              ELSE [allowed |-> FALSE, reason |-> "low_confidence"]

\* Variant: the top-confidence test is "> 0.90" and the SELL threshold is the
\* BUY threshold.
should_allow_trade_loose(ls, lc, market, current_signal, confidence, rs, rc) ==
    IF current_signal = "HOLD"
    THEN [allowed |-> FALSE, reason |-> "hold"]
    ELSE LET last == get_last_signal(ls, market, rs) IN
         IF last = NoSignal
         THEN [allowed |-> TRUE, reason |-> "first"]
         ELSE IF last # current_signal
         THEN [allowed |-> TRUE, reason |-> "reversal"]
         ELSE LET lastc == get_last_confidence(lc, market, rc) IN
              IF lastc > 90
              THEN [allowed |-> FALSE, reason |-> "top_confidence"]
              ELSE IF confidence >= 70
              THEN [allowed |-> TRUE, reason |-> "continued"]
              ELSE [allowed |-> FALSE, reason |-> "low_confidence"]

\* Variant: the HOLD test (lines 112-113) comes after the first-signal test.
should_allow_trade_hold_late(ls, lc, market, current_signal, confidence, rs, rc) ==
    LET last == get_last_signal(ls, market, rs) IN
    IF last = NoSignal
    THEN [allowed |-> TRUE, reason |-> "first"]
    ELSE IF current_signal = "HOLD"
    THEN [allowed |-> FALSE, reason |-> "hold"]
    ELSE IF last # current_signal
    THEN [allowed |-> TRUE, reason |-> "reversal"]
    ELSE LET lastc == get_last_confidence(lc, market, rc) IN
         IF lastc >= 90
         THEN [allowed |-> FALSE, reason |-> "top_confidence"]
         ELSE IF current_signal = "BUY" /\ confidence >= 70
         THEN [allowed |-> TRUE, reason |-> "continued_buy"]
         ELSE IF current_signal = "SELL" /\ confidence >= 75
         THEN [allowed |-> TRUE, reason |-> "continued_sell"]
         ELSE [allowed |-> FALSE, reason |-> "low_confidence"]

\* should_allow_trade(market, current_signal, confidence) -> (allowed, reason)
\* rs / rc: whether the two Redis reads succeed.
should_allow_trade(ls, lc, market, current_signal, confidence, rs, rc) ==
    IF current_signal = "HOLD"
    THEN [allowed |-> FALSE, reason |-> "hold"]
    ELSE LET last == get_last_signal(ls, market, rs) IN
         IF last = NoSignal
         THEN [allowed |-> TRUE, reason |-> "first"]
         ELSE IF last # current_signal
         THEN [allowed |-> TRUE, reason |-> "reversal"]
         ELSE LET lastc == get_last_confidence(lc, market, rc) IN
              IF lastc >= 90
              THEN [allowed |-> FALSE, reason |-> "top_confidence"]
              ELSE IF current_signal = "BUY" /\ confidence >= 70
              THEN [allowed |-> TRUE, reason |-> "continued_buy"]
              ELSE IF current_signal = "SELL" /\ confidence >= 75
              THEN [allowed |-> TRUE, reason |-> "continued_sell"]
              ELSE [allowed |-> FALSE, reason |-> "low_confidence"]

\* set_last_signal: SETEX signal key, then SETEX confidence key, in one try.
\* redis: "ok" | "fail" (first SETEX raises) | "partial" (second SETEX raises).
set_signal_key(ls, market, signal, redis) ==
    IF redis = "fail" THEN ls ELSE [ls EXCEPT ![market] = signal]

set_confidence_key(lc, market, confidence, redis) ==
    IF redis = "ok" THEN [lc EXCEPT ![market] = confidence] ELSE lc

----------------------------------------------------------------------------
(* EmergencyGuard *)

\* rules[0].threshold
volatility_spike_threshold == 92

\* tripped(signal, features): volatility feature > 0.95, or the ML emergency
\* score above rules[0].threshold.  A missing volatility feature reads as 0.
tripped(emergency_score, volatility) ==
    \/ volatility > 95
    \/ emergency_score > volatility_spike_threshold

----------------------------------------------------------------------------
(* TradingEngine.decide *)

\* MLSignal.action
ml_action(ml) ==
    IF ml.buy > ml.sell /\ ml.buy > 55 THEN "BUY"
    ELSE IF ml.sell > ml.buy /\ ml.sell > 55 THEN "SELL"
    ELSE "HOLD"

\* TradeDecisionResult; the dataclass defaults are investment_ratio 0.1,
\* max_loss_acceptable 0.03, take_profit_target 0.05.
TradeDecisionResult(approved, action, market, confidence, rationale, emergency, investment_ratio, max_loss_acceptable, take_profit_target) ==
    [approved |-> approved, action |-> action, market |-> market,
     confidence |-> confidence, rationale |-> rationale, emergency |-> emergency,
     investment_ratio |-> investment_ratio,
     max_loss_acceptable |-> max_loss_acceptable,
     take_profit_target |-> take_profit_target]

HoldResult(market, rationale) ==
    TradeDecisionResult(FALSE, "HOLD", market, 0, rationale, FALSE, 10, 30, 50)

\* ML-only sizing ladder (use_ai_verification off)
ml_only_ratio(confidence) ==
    IF confidence >= 80 THEN 15
    ELSE IF confidence >= 70 THEN 10
    ELSE IF confidence >= 60 THEN 7
    ELSE 5

\* confidence ladder used when the LLM sizing is not consulted
auto_ratio(confidence) ==
    IF confidence >= 80 THEN 30
    ELSE IF confidence >= 65 THEN 20
    ELSE IF confidence >= 55 THEN 10
    ELSE 5

\* Variant: an unknown verdict counts as a rejection (llm_failed of line 114
\* never set).
decide_verified_unknown_rejects(market, ml, groq, ollama, account, llm) ==
    LET confidence == Max(ml.buy, ml.sell)
        approved == groq = "yes" /\ ollama = "yes" /\ ml_action(ml) # "HOLD"
    IN  IF groq # "yes" /\ ollama # "yes"
        THEN [decision |-> HoldResult(market, "Both LLMs rejected"), logged |-> TRUE,
              verified |-> TRUE]
        ELSE IF approved /\ account
        THEN [decision |-> TradeDecisionResult(TRUE, ml_action(ml), market, confidence,
                              "LLM sized", FALSE,
                              llm.investment_ratio, llm.max_loss_acceptable,
                              llm.take_profit_target),
              logged |-> TRUE, verified |-> TRUE]
        ELSE [decision |-> TradeDecisionResult(approved, ml_action(ml), market, confidence,
                              IF approved THEN "auto sized" ELSE "veto", FALSE,
                              auto_ratio(confidence), 30, 50),
              logged |-> TRUE, verified |-> TRUE]

\* The verifier branch of decide (lines 101-171).  groq / ollama are
\* "yes" | "no" | "unknown" (True / False / None); llm is the answer of
\* verifier.decide_investment_ratio; account is whether account_info is given.
\* verified: the verifiers were asked (line 101 was reached).
decide_verified(market, ml, groq, ollama, account, llm) ==
    LET confidence == Max(ml.buy, ml.sell)
        llm_failed == groq = "unknown" \/ ollama = "unknown"
        approved == IF llm_failed THEN ml_action(ml) # "HOLD"
                    ELSE groq = "yes" /\ ollama = "yes" /\ ml_action(ml) # "HOLD"
    IN  IF groq = "no" /\ ollama = "no"
        THEN [decision |-> HoldResult(market, "Both LLMs rejected"), logged |-> TRUE,
              verified |-> TRUE]
        ELSE IF approved /\ ~llm_failed /\ account
        THEN [decision |-> TradeDecisionResult(TRUE, ml_action(ml), market, confidence,
                              "LLM sized", FALSE,
                              llm.investment_ratio, llm.max_loss_acceptable,
                              llm.take_profit_target),
              logged |-> TRUE, verified |-> TRUE]
        ELSE [decision |-> TradeDecisionResult(approved, ml_action(ml), market, confidence,
                              IF approved THEN "auto sized" ELSE "veto", FALSE,
                              auto_ratio(confidence), 30, 50),
              logged |-> TRUE, verified |-> TRUE]

\* decide(db, market, features, account_info).  cfg is the AutoTradingConfig
\* row, ml the predictor's MLSignal, volatility the "volatility" feature,
\* use_ai the use_ai_verification setting, rs / rc the outcome of the filter's
\* two Redis reads.  logged: whether an MLDecisionLog row is appended.
decide(cfg, ls, lc, market, ml, volatility, use_ai, groq, ollama, account, llm, rs, rc) ==
    IF cfg # "active"
    THEN [decision |-> HoldResult(market, "System inactive"), logged |-> FALSE, verified |-> FALSE]
    ELSE IF ml.confidence = 0
    THEN [decision |-> HoldResult(market, "ML models disabled"), logged |-> FALSE, verified |-> FALSE]
    ELSE LET confidence == Max(ml.buy, ml.sell)
             filter == should_allow_trade(ls, lc, market, ml_action(ml), confidence, rs, rc)
         IN  IF ~filter.allowed
             THEN [decision |-> HoldResult(market, filter.reason), logged |-> FALSE, verified |-> FALSE]
             ELSE IF tripped(ml.emergency_score, volatility)
             THEN [decision |-> TradeDecisionResult(TRUE, "SELL", market, ml.sell,
                                   "Emergency detected", TRUE, 100, 20, 20),
                   logged |-> TRUE, verified |-> FALSE]
             ELSE IF ~use_ai
             THEN [decision |-> TradeDecisionResult(ml_action(ml) # "HOLD", ml_action(ml),
                                   market, confidence, "ML only", FALSE,
                                   ml_only_ratio(confidence), 20, 20),
                   logged |-> TRUE, verified |-> FALSE]
             ELSE decide_verified(market, ml, groq, ollama, account, llm)

----------------------------------------------------------------------------
(* TradeExecutor.execute *)

\* Coin balances the exchange account takes; a fill never leaves more than
\* the largest
Coins == {0, 6}
MaxCoins == CHOOSE c \in Coins : \A d \in Coins : d <= c

default_trade_amount == 50000
min_order_bump == 6000
min_order_amount == 5000

NoBalance == -1    \* available_balance not passed / get_balance returned None
Raises == -2       \* the call raised

\* Available balance used for sizing (lines 230-241): the argument when given,
\* else get_balance("KRW") (krw), else settings.default_trade_amount.
resolve_balance(avail, krw) ==
    IF avail # NoBalance THEN avail
    ELSE IF krw >= 0 THEN krw
    ELSE default_trade_amount

\* Variant: no minimum-order bump (lines 246-247 missing).
trade_amount_no_bump(available, investment_ratio) ==
    LET raw == available * investment_ratio * 10
    IN  IF raw > available * 1000 THEN available * 995 ELSE raw

\* trade_amount * 1000 after the minimum-order bump and the balance cap
\* (lines 243-251).
trade_amount(available, investment_ratio) ==
    LET raw == available * investment_ratio * 10
        bumped == IF raw < min_order_bump * 1000 THEN min_order_bump * 1000 ELSE raw
    IN  IF bumped > available * 1000 THEN available * 995 ELSE bumped

\* Line 253: below the minimum the call returns before any exchange call.
below_minimum(amount) == amount < min_order_amount * 1000

OpenOf(pos, market) ==
    {i \in 1..Len(pos) : pos[i].market = market /\ pos[i].status = "OPEN"}

\* for pos in positions: pos.status = "CLOSED"
close_positions(pos, market) ==
    [i \in 1..Len(pos) |->
        IF pos[i].market = market /\ pos[i].status = "OPEN"
        THEN [pos[i] EXCEPT !.status = "CLOSED"]
        ELSE pos[i]]

\* TradePosition(...) of a confirmed BUY (lines 278-285).  The size column is
\* written here and never read by the pipeline; the rows carry the columns
\* that are read.
new_position(d, current_price, amount, clock) ==
    [market |-> d.market,
     entry_price |-> current_price,
     stop_loss |-> current_price * (1000 - d.max_loss_acceptable),
     take_profit |-> current_price * (1000 + d.take_profit_target),
     status |-> "OPEN",
     created_at |-> clock]

\* TradeLog(...) of lines 345-360: the decision's rationale and sizing
\* parameters
trade_log_entry(d, available, amount, result) ==
    [market |-> d.market, side |-> d.action, amount |-> amount,
     reason |-> d.rationale, confidence |-> d.confidence,
     emergency |-> d.emergency, investment_ratio |-> d.investment_ratio,
     max_loss_acceptable |-> d.max_loss_acceptable,
     take_profit_target |-> d.take_profit_target,
     available_balance |-> available,
     upbit_result |-> IF result = "uuid" THEN "uuid" ELSE "none"]

\* The exchange balance queries of a call: get_balance("KRW") when no
\* available_balance is passed (line 234), get_balance(ticker) on a SELL that
\* passes the sizing gate (line 297)
balance_queries(d, avail, gate) ==
    (IF avail = NoBalance THEN {"KRW"} ELSE {})
    \cup (IF gate = "pass" /\ d.action = "SELL" THEN {"coin"} ELSE {})

\* Line 226-227: the return of a call whose decision is not approved
NoCall(d, w, avail) ==
    [decision |-> d, avail |-> avail, available |-> 0, amount |-> 0, gate |-> "noop",
     orders |-> << >>, balance_amount |-> 0, result |-> "none",
     held |-> w.hold[d.market], krw |-> NoBalance, answer |-> "none", bal |-> "none",
     quote |-> "none", fill |-> 0, redis |-> "none", db |-> "none", log |-> "none",
     signal_pre |-> w.ls[d.market], signal_post |-> w.ls[d.market],
     confidence_pre |-> w.lc[d.market], confidence_post |-> w.lc[d.market],
     open_pre |-> OpenOf(w.pos, d.market), open_post |-> OpenOf(w.pos, d.market),
     rows_pre |-> Len(w.pos), rows_post |-> Len(w.pos),
     before |-> w, after |-> w,
     queries |-> {}, logged |-> FALSE, entries |-> << >>, returns |-> "normal"]

\* The answers of a call that returns at the sizing gate: only the KRW
\* balance was asked for
unasked(x) ==
    [krw |-> x.krw, order |-> "none", bal |-> "none", quote |-> "none", fill |-> 0,
     redis |-> "none", db |-> "none", log |-> "none"]

\* What one call did, told from the state before (w) and after (w2) and the
\* answers (x) it met.
\* logged: the call reached the trade-log block (lines 344-365); entries: the
\* TradeLog rows its commit appended (none when x.log = "fail": the except
\* branch rolls the insert back); returns: how the call ended.
CallRecord(d, w, w2, avail, available, amount, gate, orders, balance_amount, result, logged, x) ==
    [decision |-> d, avail |-> avail, available |-> available, amount |-> amount,
     gate |-> gate,
     orders |-> orders, balance_amount |-> balance_amount, result |-> result,
     held |-> w.hold[d.market], krw |-> x.krw, answer |-> x.order, bal |-> x.bal,
     quote |-> x.quote, fill |-> x.fill, redis |-> x.redis, db |-> x.db, log |-> x.log,
     signal_pre |-> w.ls[d.market], signal_post |-> w2.ls[d.market],
     confidence_pre |-> w.lc[d.market], confidence_post |-> w2.lc[d.market],
     open_pre |-> OpenOf(w.pos, d.market), open_post |-> OpenOf(w2.pos, d.market),
     rows_pre |-> Len(w.pos), rows_post |-> Len(w2.pos),
     before |-> w, after |-> w2,
     queries |-> balance_queries(d, avail, gate),
     logged |-> logged,
     entries |-> IF logged /\ x.log = "ok"
                 THEN <<trade_log_entry(d, available, amount, result)>>
                 ELSE << >>,
     returns |-> "normal"]

\* The state after a confirmed BUY (lines 267-290): the coins bought, the
\* filter keys, and the row when the quote is a number and the commit succeeds
bought(w, d, amount, x, clock) ==
    LET filled == [w EXCEPT
            !.hold[d.market] = Min(@ + Max(1, amount \div (x.fill * 1000)), MaxCoins),
            !.ls = set_signal_key(@, d.market, "BUY", x.redis),
            !.lc = set_confidence_key(@, d.market, d.confidence, x.redis)]
    IN  IF x.quote = "ok" /\ x.db = "ok"
        THEN [filled EXCEPT !.pos = Append(@, new_position(d, x.fill, amount, clock))]
        ELSE filled

\* Variant: the BUY branch does not test the order's result (line 267
\* missing); a rejected order is followed by the filter and row writes.
execute_buy_unconfirmed(w, d, avail, available, amount, x, clock) ==
    LET order == <<[side |-> "BUY", market |-> d.market, qty |-> amount]>> IN
    IF x.order = "raise"
    THEN [w |-> w, call |-> CallRecord(d, w, w, avail, available, amount, "pass",
                                       order, 0, "raise", TRUE, x)]
    ELSE LET w2 == IF x.order = "ok" THEN bought(w, d, amount, x, clock)
                   ELSE [bought(w, d, amount, x, clock) EXCEPT !.hold = w.hold]
         IN  [w |-> w2, call |-> CallRecord(d, w, w2, avail, available, amount, "pass",
                                            order, 0,
                                            IF x.order = "ok" THEN "uuid" ELSE "none",
                                            TRUE, x)]

\* Variant: no try around the exchange calls (lines 259, 337-339 missing); an
\* order that raises ends the call.
execute_buy_unguarded(w, d, avail, available, amount, x, clock) ==
    LET order == <<[side |-> "BUY", market |-> d.market, qty |-> amount]>> IN
    IF x.order = "raise"
    THEN [w |-> w,
          call |-> [CallRecord(d, w, w, avail, available, amount, "pass",
                               order, 0, "raise", FALSE, x)
                       EXCEPT !.returns = "raise"]]
    ELSE IF x.order = "rejected"
    THEN [w |-> w, call |-> CallRecord(d, w, w, avail, available, amount, "pass",
                                       order, 0, "none", TRUE, x)]
    ELSE LET w2 == bought(w, d, amount, x, clock)
         IN  [w |-> w2, call |-> CallRecord(d, w, w2, avail, available, amount, "pass",
                                            order, 0, "uuid", TRUE, x)]

\* BUY branch (lines 262-292).  x.order: "ok" (dict with uuid) | "rejected"
\* (None / error dict) | "raise".  x.fill: the market price at the fill;
\* x.quote: get_current_price answers it ("ok"), answers None ("none") or
\* raises ("raise"); x.db: the commit of the row succeeds ("ok") or raises
\* ("fail").  Every exception ends in an except branch of the call.
execute_buy(w, d, avail, available, amount, x, clock) ==
    LET order == <<[side |-> "BUY", market |-> d.market, qty |-> amount]>> IN
    IF x.order = "raise"
    THEN [w |-> w, call |-> CallRecord(d, w, w, avail, available, amount, "pass",
                                       order, 0, "raise", TRUE, x)]
    ELSE IF x.order = "rejected"
    THEN [w |-> w, call |-> CallRecord(d, w, w, avail, available, amount, "pass",
                                       order, 0, "none", TRUE, x)]
    ELSE LET w2 == bought(w, d, amount, x, clock)
         IN  [w |-> w2, call |-> CallRecord(d, w, w2, avail, available, amount, "pass",
                                            order, 0, "uuid", TRUE, x)]

\* Variant: the zero-balance branch leaves the OPEN rows alone (lines 322-335
\* missing).
execute_sell_keeps_orphans(w, d, avail, available, amount, x) ==
    LET balance_amount == IF x.bal = "value" THEN w.hold[d.market] ELSE 0 IN
    IF x.bal = "raise"
    THEN [w |-> w, call |-> CallRecord(d, w, w, avail, available, amount, "pass",
                                       << >>, 0, "raise", TRUE, x)]
    ELSE IF balance_amount > 0
    THEN LET order == <<[side |-> "SELL", market |-> d.market, qty |-> balance_amount]>> IN
         IF x.order = "raise"
         THEN [w |-> w, call |-> CallRecord(d, w, w, avail, available, amount, "pass",
                                            order, balance_amount, "raise", TRUE, x)]
         ELSE LET w2 == [w EXCEPT
                       !.hold[d.market] = IF x.order = "ok" THEN 0 ELSE @,
                       !.ls = set_signal_key(@, d.market, "SELL", x.redis),
                       !.lc = set_confidence_key(@, d.market, d.confidence, x.redis),
                       !.pos = IF x.db = "ok" THEN close_positions(@, d.market) ELSE @]
              IN  [w |-> w2, call |-> CallRecord(d, w, w2, avail, available, amount, "pass",
                                                 order, balance_amount,
                                                 IF x.order = "ok" THEN "uuid" ELSE "none",
                                                 TRUE, x)]
    ELSE [w |-> w, call |-> CallRecord(d, w, w, avail, available, amount, "pass",
                                       << >>, 0, "none", TRUE, x)]

\* SELL branch (lines 294-336).  x.bal: get_balance(ticker) answers the held
\* balance ("value"), None ("none") or raises ("raise"); x.db: the commit of
\* the closed rows succeeds ("ok") or raises ("fail").
execute_sell(w, d, avail, available, amount, x) ==
    LET balance_amount == IF x.bal = "value" THEN w.hold[d.market] ELSE 0 IN
    IF x.bal = "raise"
    THEN [w |-> w, call |-> CallRecord(d, w, w, avail, available, amount, "pass",
                                       << >>, 0, "raise", TRUE, x)]
    ELSE IF balance_amount > 0
    THEN LET order == <<[side |-> "SELL", market |-> d.market, qty |-> balance_amount]>> IN
         IF x.order = "raise"
         THEN [w |-> w, call |-> CallRecord(d, w, w, avail, available, amount, "pass",
                                            order, balance_amount, "raise", TRUE, x)]
         ELSE LET w2 == [w EXCEPT
                       !.hold[d.market] = IF x.order = "ok" THEN 0 ELSE @,
                       !.ls = set_signal_key(@, d.market, "SELL", x.redis),
                       !.lc = set_confidence_key(@, d.market, d.confidence, x.redis),
                       !.pos = IF x.db = "ok" THEN close_positions(@, d.market) ELSE @]
              IN  [w |-> w2, call |-> CallRecord(d, w, w2, avail, available, amount, "pass",
                                                 order, balance_amount,
                                                 IF x.order = "ok" THEN "uuid" ELSE "none",
                                                 TRUE, x)]
    ELSE LET w2 == [w EXCEPT !.pos = IF x.db = "ok" THEN close_positions(@, d.market) ELSE @]
         IN  [w |-> w2, call |-> CallRecord(d, w, w2, avail, available, amount, "pass",
                                            << >>, 0, "none", TRUE, x)]

\* Lines 229-365: the call of an approved decision
execute_approved(w, d, avail, x, clock) ==
    LET available == resolve_balance(avail, x.krw)
        amount == trade_amount(available, d.investment_ratio)
    IN  IF below_minimum(amount)
        THEN [w |-> w, call |-> CallRecord(d, w, w, avail, available, amount, "skip",
                                           << >>, 0, "none", FALSE, unasked(x))]
        ELSE IF d.action = "BUY" THEN execute_buy(w, d, avail, available, amount, x, clock)
        ELSE IF d.action = "SELL" THEN execute_sell(w, d, avail, available, amount, x)
        ELSE [w |-> w, call |-> CallRecord(d, w, w, avail, available, amount, "pass",
                                           << >>, 0, "none", TRUE, x)]

\* Variant: the approval test (lines 226-227) is missing.
execute_unapproved(w, d, avail, x, clock) == execute_approved(w, d, avail, x, clock)

\* execute(db, decision, available_balance).  w = [pos, ls, lc, hold] is the
\* state it works on; avail is the argument (NoBalance = None); x are the
\* answers of the exchange, the price feed, Redis and the database during
\* this call.
execute(w, d, avail, x, clock) ==
    IF ~d.approved
    THEN [w |-> w, call |-> NoCall(d, w, avail)]
    ELSE execute_approved(w, d, avail, x, clock)

----------------------------------------------------------------------------
(* check_and_manage_positions *)

max_position_hold_minutes == 30

\* pnl_pct <= bound, with pnl_pct = (price - entry) / entry and the bound in
\* per-mille (entry > 0)
pnl_at_most(price, entry, permille) == (price - entry) * 1000 <= permille * entry

\* The SELL decision of an exit rule
exit_decision(market, rationale, emergency) ==
    TradeDecisionResult(TRUE, "SELL", market, 100, rationale, emergency, 100, 30, 50)

\* Variant: the tightening rule writes price * 0.995 without comparing it to
\* the existing stop (line 112 missing).
tightened_stop_unguarded(row, price) ==
    IF pnl_at_most(price, row.entry_price, -15) /\ ~pnl_at_most(price, row.entry_price, -25)
    THEN price * 995
    ELSE row.stop_loss

\* Lines 108-117: in (-2.5%, -1.5%] the stop moves to price * 0.995 if higher.
tightened_stop(row, price) ==
    IF pnl_at_most(price, row.entry_price, -15) /\ ~pnl_at_most(price, row.entry_price, -25)
       /\ price * 995 > row.stop_loss
    THEN price * 995
    ELSE row.stop_loss

\* Lines 124-137: above entry * 1.015 the stop moves to
\* max(price * 0.98, entry * 1.002) if higher.
trailed_stop(row, price) ==
    IF price * 1000 > row.entry_price * 1015
       /\ Max(price * 980, row.entry_price * 1002) > row.stop_loss
    THEN Max(price * 980, row.entry_price * 1002)
    ELSE row.stop_loss

\* Lines 139-194: the breach checks after the two adjustments.
breach_rule(row, price, clock) ==
    IF price * 1000 <= row.stop_loss THEN "stop_loss"
    ELSE IF price * 1000 >= row.take_profit THEN "take_profit"
    ELSE IF max_position_hold_minutes > 0
            /\ clock - row.created_at > max_position_hold_minutes THEN "time_limit"
    ELSE "none"

\* Variant: the hard stop limit is tested before the loss cut.
evaluate_position_hard_stop_first(w, i, price, x, clock) ==
    LET row == w.pos[i] IN
    IF pnl_at_most(price, row.entry_price, -35)
    THEN LET r == execute(w, exit_decision(row.market, "hard_stop", TRUE), NoBalance, x, clock)
         IN  [w |-> r.w, rule |-> "hard_stop", calls |-> <<r.call>>]
    ELSE IF pnl_at_most(price, row.entry_price, -25)
    THEN LET r == execute(w, exit_decision(row.market, "loss_cut", TRUE), NoBalance, x, clock)
         IN  [w |-> r.w, rule |-> "loss_cut", calls |-> <<r.call>>]
    ELSE LET t1 == [row EXCEPT !.stop_loss = tightened_stop(row, price)]
             t2 == [t1 EXCEPT !.stop_loss = trailed_stop(t1, price)]
             w1 == [w EXCEPT !.pos[i] = t2]
             rule == breach_rule(t2, price, clock)
         IN  IF rule = "none"
             THEN [w |-> w1, rule |-> "none", calls |-> << >>]
             ELSE LET r == execute(w1, exit_decision(row.market, rule,
                                                     rule = "stop_loss"),
                                   NoBalance, x, clock)
                  IN  [w |-> r.w, rule |-> rule, calls |-> <<r.call>>]

\* One iteration of the loop (lines 62-194) for row i at a price > 0:
\* the rule that fires ("none" when no SELL is issued), the row's stop after
\* the adjustments, and the state after the executor call.
evaluate_position(w, i, price, x, clock) ==
    LET row == w.pos[i] IN
    IF pnl_at_most(price, row.entry_price, -25)
    THEN LET r == execute(w, exit_decision(row.market, "loss_cut", TRUE), NoBalance, x, clock)
         IN  [w |-> r.w, rule |-> "loss_cut", calls |-> <<r.call>>]
    ELSE IF pnl_at_most(price, row.entry_price, -35)
    THEN LET r == execute(w, exit_decision(row.market, "hard_stop", TRUE), NoBalance, x, clock)
         IN  [w |-> r.w, rule |-> "hard_stop", calls |-> <<r.call>>]
    ELSE LET t1 == [row EXCEPT !.stop_loss = tightened_stop(row, price)]
             t2 == [t1 EXCEPT !.stop_loss = trailed_stop(t1, price)]
             w1 == [w EXCEPT !.pos[i] = t2]
             rule == breach_rule(t2, price, clock)
         IN  IF rule = "none"
             THEN [w |-> w1, rule |-> "none", calls |-> << >>]
             ELSE LET r == execute(w1, exit_decision(row.market, rule,
                                                     rule = "stop_loss"),
                                   NoBalance, x, clock)
                  IN  [w |-> r.w, rule |-> rule, calls |-> <<r.call>>]

\* The loop over the rows loaded at the start (todo, in query order).
\* prices[market] = 0: no price for the market (the row is skipped).  A row
\* whose entry_price is 0 raises on the PnL division: the except around the
\* loop ends the whole pass.  Returns the state, the evaluations made and the
\* executor calls made.
RECURSIVE manage_loop(_, _, _, _, _, _, _)
manage_loop(w, todo, prices, xs, clock, evals, calls) ==
    IF todo = << >> THEN [w |-> w, evals |-> evals, calls |-> calls, raised |-> FALSE]
    ELSE LET i == Head(todo)
             price == prices[w.pos[i].market]
         IN  IF price = 0
             THEN manage_loop(w, Tail(todo), prices, xs, clock, evals, calls)
             ELSE IF w.pos[i].entry_price = 0
             THEN [w |-> w, evals |-> evals, calls |-> calls, raised |-> TRUE]
             ELSE LET e == evaluate_position(w, i, price, xs[i], clock)
                      rec == [row |-> i, price |-> price, rule |-> e.rule,
                              before |-> w.pos[i], after |-> e.w.pos[i],
                              clock |-> clock, calls |-> e.calls]
                  IN  manage_loop(e.w, Tail(todo), prices, xs, clock,
                                  Append(evals, rec), calls \o e.calls)

\* db.query(TradePosition).filter(status == "OPEN").all()
RECURSIVE open_rows(_, _)
open_rows(pos, i) ==
    IF i > Len(pos) THEN << >>
    ELSE IF pos[i].status = "OPEN" THEN <<i>> \o open_rows(pos, i + 1)
    ELSE open_rows(pos, i + 1)

\* check_and_manage_positions(db, executor).  prices: the answer of
\* get_current_price per market; feed: "ok" | "none" (None) | "raise".
check_and_manage_positions(w, prices, feed, xs, clock) ==
    IF open_rows(w.pos, 1) = << >>
    THEN [w |-> w, evals |-> << >>, calls |-> << >>, raised |-> FALSE]
    ELSE IF feed # "ok"
    THEN [w |-> w, evals |-> << >>, calls |-> << >>, raised |-> feed = "raise"]
    ELSE manage_loop(w, open_rows(w.pos, 1), prices, xs, clock, << >>, << >>)

----------------------------------------------------------------------------
(* Reconciliation: run_cycle's sync of exchange holdings, and sync_positions *)

stop_loss_percent == 2
take_profit_percent == 2
min_holding_value == 5000

MarketOrder == <<"KRW-BTC", "KRW-ETH">>

\* Lines 283-302 of run_cycle: initial stop of a synced holding, by its PnL.
synced_stop(price, avg_buy_price) ==
    IF avg_buy_price > 0 /\ pnl_at_most(price, avg_buy_price, -25) THEN price * 1001
    ELSE IF avg_buy_price > 0 /\ pnl_at_most(price, avg_buy_price, -15) THEN price * 995
    ELSE IF avg_buy_price > 0 /\ price < avg_buy_price THEN avg_buy_price * 980
    ELSE Max(avg_buy_price * 990, avg_buy_price * (1000 - stop_loss_percent * 10))

\* Lines 306-313: the row created for a holding with no OPEN row.
synced_position(market, balance, price, avg_buy_price, clock) ==
    [market |-> market, entry_price |-> avg_buy_price,
     stop_loss |-> synced_stop(price, avg_buy_price),
     take_profit |-> avg_buy_price * (1000 + take_profit_percent * 10),
     status |-> "OPEN", created_at |-> clock]

\* Variant: a holding with no OPEN row re-opens the CLOSED rows of its market
\* when there are any, instead of inserting a row.
RECURSIVE reconcile_reopening(_, _, _, _, _, _)
reconcile_reopening(pos, hold, prices, avgs, clock, k) ==
    IF k > Len(MarketOrder) THEN pos
    ELSE LET m == MarketOrder[k]
             closed == {i \in 1..Len(pos) : pos[i].market = m /\ pos[i].status = "CLOSED"}
             pos2 == IF hold[m] * prices[m] > min_holding_value /\ OpenOf(pos, m) = {}
                     THEN IF closed # {}
                          THEN [i \in 1..Len(pos) |->
                                   IF i \in closed THEN [pos[i] EXCEPT !.status = "OPEN"]
                                   ELSE pos[i]]
                          ELSE Append(pos, synced_position(m, hold[m], prices[m],
                                                           avgs[m], clock))
                     ELSE pos
         IN  reconcile_reopening(pos2, hold, prices, avgs, clock, k + 1)

\* Lines 267-316: for each non-KRW balance worth more than 5000 KRW at the
\* current price and with no OPEN row, insert a row.
RECURSIVE reconcile(_, _, _, _, _, _)
reconcile(pos, hold, prices, avgs, clock, k) ==
    IF k > Len(MarketOrder) THEN pos
    ELSE LET m == MarketOrder[k]
             pos2 == IF hold[m] * prices[m] > min_holding_value /\ OpenOf(pos, m) = {}
                     THEN Append(pos, synced_position(m, hold[m], prices[m], avgs[m], clock))
                     ELSE pos
         IN  reconcile(pos2, hold, prices, avgs, clock, k + 1)

\* sync_positions.py lines 26-39: holdings worth more than 5000 KRW at their
\* average buy price.
current_holdings(hold, avgs) == {m \in Markets : hold[m] * avgs[m] > min_holding_value}

\* db_markets = {p.market: p for p in db_positions}: the last OPEN row of
\* each market.
db_market_row(pos, market) ==
    IF OpenOf(pos, market) = {} THEN 0
    ELSE CHOOSE i \in OpenOf(pos, market) : \A j \in OpenOf(pos, market) : j <= i

\* sync_positions.py lines 47-58: rows added for holdings without an OPEN row
RECURSIVE sync_added(_, _, _, _, _, _)
sync_added(pos, base, hold, avgs, clock, k) ==
    IF k > Len(MarketOrder) THEN pos
    ELSE LET m == MarketOrder[k]
             pos2 == IF m \in current_holdings(hold, avgs) /\ OpenOf(base, m) = {}
                     THEN Append(pos, [market |-> m,
                                       entry_price |-> avgs[m],
                                       stop_loss |-> avgs[m] * 970,
                                       take_profit |-> avgs[m] * 1050,
                                       status |-> "OPEN", created_at |-> clock])
                     ELSE pos
         IN  sync_added(pos2, base, hold, avgs, clock, k + 1)

\* sync_positions.py lines 60-65: the dict's row of a market that is no
\* longer held is closed.
sync_closed(pos, base, hold, avgs) ==
    [i \in 1..Len(pos) |->
        IF i <= Len(base) /\ i = db_market_row(base, pos[i].market)
           /\ pos[i].market \notin current_holdings(hold, avgs)
        THEN [pos[i] EXCEPT !.status = "CLOSED"]
        ELSE pos[i]]

sync_positions(pos, hold, avgs, clock) ==
    sync_closed(sync_added(pos, pos, hold, avgs, clock, 1), pos, hold, avgs)

----------------------------------------------------------------------------
(* The scheduled cadences: run_tick_cycle, run_emergency_check, run_cycle *)

tick_min_confidence == 60
tick_max_positions == 5

\* run_tick_cycle lines 664-673: the sizing ladder of the tick cycle
tick_ratio(action, confidence) ==
    IF action = "SELL" THEN 100
    ELSE IF confidence >= 85 THEN 50
    ELSE IF confidence >= 75 THEN 30
    ELSE 15

\* run_tick_cycle lines 676-687: the decision built from the ML signal alone
tick_decision(market, ml) ==
    LET confidence == Max(ml.buy, ml.sell) IN
    TradeDecisionResult(ml_action(ml) # "HOLD", ml_action(ml), market, confidence,
                        "tick", FALSE, tick_ratio(ml_action(ml), confidence), 20, 30)

\* Variant: an error of one market ends the loop (the try of line 645 around
\* the for statement instead of inside it).
RECURSIVE tick_loop_aborting(_, _, _, _, _, _, _)
tick_loop_aborting(w, todo, mls, krw, xs, clock, calls) ==
    IF todo = << >> THEN [w |-> w, calls |-> calls]
    ELSE LET m == Head(todo)
             d == tick_decision(m, mls[m])
         IN  IF ~mls[m].data
             THEN tick_loop_aborting(w, Tail(todo), mls, krw, xs, clock, calls)
             ELSE IF mls[m].fault # "none"
             THEN [w |-> w, calls |-> calls]
             ELSE IF d.confidence < tick_min_confidence \/ ~d.approved
             THEN tick_loop_aborting(w, Tail(todo), mls, krw, xs, clock, calls)
             ELSE LET r == execute(w, d, krw, xs[m], clock)
                  IN  tick_loop_aborting(r.w, Tail(todo), mls, krw, xs, clock,
                                         Append(calls, r.call))

\* run_tick_cycle lines 644-697: the loop over the tracked markets.  mls[m]
\* is what the tick has for market m: data (150 rows or more), fault ("none",
\* or the step that raises: "features", "infer"), and the predictor's signal;
\* xs[m] are the answers its executor call meets.  The balance krw is read
\* once, before the loop (line 608), and handed to every call (line 692).
RECURSIVE tick_loop(_, _, _, _, _, _, _)
tick_loop(w, todo, mls, krw, xs, clock, calls) ==
    IF todo = << >> THEN [w |-> w, calls |-> calls]
    ELSE LET m == Head(todo)
             d == tick_decision(m, mls[m])
         IN  IF ~mls[m].data \/ mls[m].fault # "none"
             THEN tick_loop(w, Tail(todo), mls, krw, xs, clock, calls)
             ELSE IF d.confidence < tick_min_confidence \/ ~d.approved
             THEN tick_loop(w, Tail(todo), mls, krw, xs, clock, calls)
             ELSE LET r == execute(w, d, krw, xs[m], clock)
                  IN  tick_loop(r.w, Tail(todo), mls, krw, xs, clock,
                                Append(calls, r.call))

\* run_tick_cycle.  cfg: the newest AutoTradingConfig row; feed: get_balances
\* answers ("ok") or raises; krw: get_balance("KRW") or 0.  ran: the loop over
\* the markets was entered.
run_tick_cycle(cfg, w, feed, todo, mls, krw, xs, clock) ==
    IF cfg # "active" \/ feed # "ok"
       \/ Cardinality({m \in Markets : w.hold[m] > 0}) >= tick_max_positions
    THEN [w |-> w, calls |-> << >>, ran |-> FALSE]
    ELSE LET r == tick_loop(w, todo, mls, krw, xs, clock, << >>)
         IN  [w |-> r.w, calls |-> r.calls, ran |-> TRUE]

\* EmergencyTrader.thresholds, in tenths of a percent and tenths of a ratio
crash_1min == -20
crash_3min == -30
crash_5min == -50
surge_1min == 30
surge_3min == 50
volume_spike == 30

\* EmergencyTrader.detect_emergency_signal (lines 125-225); c are the metrics
\* computed from the candles ("none": no candles).  The volatility rule is
\* c.volatile: current volatility above twice its average.
detect_emergency_signal(is_holding, c) ==
    IF c.candles = "none" THEN "none"
    ELSE IF is_holding
            /\ (c.change_1m <= crash_1min \/ c.change_3m <= crash_3min
                \/ c.change_5m <= crash_5min \/ (c.volatile /\ c.change_1m < 0))
    THEN "emergency_sell"
    ELSE IF ~is_holding /\ c.volume_ratio >= volume_spike
            /\ (c.change_1m >= surge_1min \/ c.change_3m >= surge_3min)
    THEN "emergency_buy"
    ELSE "none"

\* EmergencyTrader.execute_emergency_trade (lines 242-298): the state after,
\* and the orders it sends to the exchange itself.
execute_emergency_trade(w, market, action, x) ==
    IF action = "emergency_sell"
    THEN LET balance_float == IF x.bal = "value" THEN w.hold[market] ELSE 0 IN
         IF x.bal = "raise" \/ balance_float <= 0
         THEN [w |-> w, orders |-> << >>, success |-> FALSE]
         ELSE [w |-> IF x.order = "ok" THEN [w EXCEPT !.hold[market] = 0] ELSE w,
               orders |-> <<[side |-> "SELL", market |-> market, qty |-> balance_float,
                             by |-> "EmergencyTrader", answer |-> x.order]>>,
               success |-> x.order # "raise"]
    ELSE IF action = "emergency_buy"
    THEN LET krw_balance_float == IF x.krw >= 0 THEN x.krw ELSE 0 IN
         IF x.krw = Raises \/ krw_balance_float < default_trade_amount
         THEN [w |-> w, orders |-> << >>, success |-> FALSE]
         ELSE [w |-> IF x.order = "ok"
                     THEN [w EXCEPT !.hold[market] =
                              Min(@ + Max(1, default_trade_amount \div x.fill), MaxCoins)]
                     ELSE w,
               orders |-> <<[side |-> "BUY", market |-> market,
                             qty |-> default_trade_amount * 1000,
                             by |-> "EmergencyTrader", answer |-> x.order]>>,
               success |-> x.order # "raise"]
    ELSE [w |-> w, orders |-> << >>, success |-> FALSE]

cooldown_minutes == 5
NoOrder == -1     \* no key in last_emergency_trades / no order sent yet

\* EmergencyTrader._can_trade (lines 227-240)
can_trade(last_emergency_trades, market, clock) ==
    \/ last_emergency_trades[market] = NoOrder
    \/ clock - last_emergency_trades[market] >= cooldown_minutes

\* check_all_markets (lines 76-109) and run_emergency_check lines 563-574:
\* a market that passes the cooldown test and shows a signal is written to
\* the trader's table and traded.
RECURSIVE emergency_loop(_, _, _, _, _, _, _, _)
emergency_loop(w, held, todo, metrics, xs, clock, last_emergency_trades, orders) ==
    IF todo = << >> THEN [w |-> w, orders |-> orders]
    ELSE LET m == Head(todo)
             action == detect_emergency_signal(m \in held, metrics[m])
         IN  IF ~can_trade(last_emergency_trades, m, clock) \/ action = "none"
             THEN emergency_loop(w, held, Tail(todo), metrics, xs, clock,
                                 last_emergency_trades, orders)
             ELSE LET r == execute_emergency_trade(w, m, action, xs[m])
                  IN  emergency_loop(r.w, held, Tail(todo), metrics, xs, clock,
                                     [last_emergency_trades EXCEPT ![m] = clock],
                                     orders \o r.orders)

\* run_emergency_check.  The trader is built anew in every check (line 559),
\* so its cooldown table is empty; held are the markets of the non-KRW
\* balances.
run_emergency_check(cfg, w, feed, todo, metrics, xs, clock) ==
    IF cfg # "active" \/ feed # "ok"
    THEN [w |-> w, orders |-> << >>]
    ELSE emergency_loop(w, {m \in Markets : w.hold[m] > 0}, todo, metrics, xs, clock,
                        [m \in Markets |-> NoOrder], << >>)

\* Variant: the steps of the ladder start above their thresholds.
enhanced_ratio_strict(action, confidence) ==
    IF action = "SELL" THEN 100
    ELSE IF confidence > 90 THEN 40
    ELSE IF confidence > 85 THEN 30
    ELSE IF confidence > 75 THEN 25
    ELSE IF confidence > 65 THEN 15
    ELSE 10

\* run_cycle lines 415-429: the sizing ladder of the enhanced path
enhanced_ratio(action, confidence) ==
    IF action = "SELL" THEN 100
    ELSE IF confidence >= 90 THEN 40
    ELSE IF confidence >= 85 THEN 30
    ELSE IF confidence >= 75 THEN 25
    ELSE IF confidence >= 65 THEN 15
    ELSE 10

\* run_cycle lines 456-468: stop and target (per mille) when the candles
\* carry no ATR
fixed_stop_loss_pct(confidence) ==
    IF confidence >= 90 THEN 15
    ELSE IF confidence >= 70 THEN 20
    ELSE 25

fixed_take_profit_pct(confidence) ==
    IF confidence >= 90 THEN 80
    ELSE IF confidence >= 80 THEN 60
    ELSE IF confidence >= 70 THEN 50
    ELSE 40

\* run_cycle lines 438-446: the ATR multipliers (tenths) by confidence
atr_multipliers(confidence) ==
    IF confidence >= 90 THEN [sl |-> 10, tp |-> 40]
    ELSE IF confidence >= 80 THEN [sl |-> 12, tp |-> 35]
    ELSE [sl |-> 15, tp |-> 30]

\* run_cycle lines 449-454: stop and target as fractions num / den of the
\* price, den = 10000 * current_price: atr * multiplier / current_price,
\* capped at 4% and 15%, raised to 1.2% and 3%
atr_levels(atr, current_price, confidence) ==
    LET mult == atr_multipliers(confidence) IN
    [stop_loss |-> Max(Min(atr * mult.sl * 1000, 400 * current_price),
                       120 * current_price),
     take_profit |-> Max(Min(atr * mult.tp * 1000, 1500 * current_price),
                         300 * current_price),
     den |-> 10000 * current_price]

\* run_cycle lines 430-470: stop_loss_pct and take_profit_pct of a non-HOLD
\* decision, from the ATR of the last candle when it and the close are
\* positive, else from the confidence alone (den = 1000)
risk_levels(atr, current_price, confidence) ==
    IF atr > 0 /\ current_price > 0
    THEN atr_levels(atr, current_price, confidence)
    ELSE [stop_loss |-> fixed_stop_loss_pct(confidence),
          take_profit |-> fixed_take_profit_pct(confidence),
          den |-> 1000]

\* run_cycle lines 389-411: a held market whose signal is HOLD or a BUY below
\* 0.70 and whose last close is more than 3% under the entry is sold
trend_review(pos, market, sig, close) ==
    LET open == OpenOf(pos, market) IN
    IF open # {} /\ (sig.action = "HOLD" \/ (sig.action = "BUY" /\ sig.confidence < 70))
    THEN LET first == CHOOSE i \in open : \A j \in open : i <= j
             entry_price == pos[first].entry_price
         IN  IF entry_price > 0 /\ (close - entry_price) * 1000 < -30 * entry_price
             THEN [action |-> "SELL", confidence |-> 95, rationale |-> "trend_review"]
             ELSE [action |-> sig.action, confidence |-> sig.confidence,
                   rationale |-> "enhanced"]
    ELSE [action |-> sig.action, confidence |-> sig.confidence, rationale |-> "enhanced"]

\* run_cycle lines 413-498: the decision of the enhanced path
enhanced_decision(pos, market, sig, close) ==
    LET s == trend_review(pos, market, sig, close) IN
    IF s.action # "HOLD"
    THEN TradeDecisionResult(TRUE, s.action, market, s.confidence, s.rationale, FALSE,
                             enhanced_ratio(s.action, s.confidence),
                             fixed_stop_loss_pct(s.confidence),
                             fixed_take_profit_pct(s.confidence))
    ELSE TradeDecisionResult(FALSE, "HOLD", market, s.confidence, s.rationale, FALSE,
                             0, 30, 50)

\* run_cycle lines 347-521: the loop over the markets.  f[m]: data (150 rows
\* or more), enhanced (the enhanced engine is available), fault ("none", or
\* the step that raises: "indicators", caught at line 373, or "signal", caught
\* at line 519), sig and close (the enhanced signal and the last close), ml
\* and volatility (the predictor's signal and the volatility feature of the
\* fallback, which runs without the verifier).  The balance krw is the one of
\* the balances answer read at the start of the cycle (lines 245-249, 517).
RECURSIVE signal_loop(_, _, _, _, _, _, _, _)
signal_loop(cfg, w, todo, f, krw, xs, clock, calls) ==
    IF todo = << >> THEN [w |-> w, calls |-> calls]
    ELSE LET m == Head(todo) IN
         IF ~f[m].data \/ f[m].fault = "signal"
            \/ (f[m].enhanced /\ f[m].fault = "indicators")
         THEN signal_loop(cfg, w, Tail(todo), f, krw, xs, clock, calls)
         ELSE LET d == IF f[m].enhanced
                       THEN enhanced_decision(w.pos, m, f[m].sig, f[m].close)
                       ELSE decide(cfg, w.ls, w.lc, m, f[m].ml, f[m].volatility,
                                   FALSE, "yes", "yes", TRUE,
                                   [investment_ratio |-> 10, max_loss_acceptable |-> 30,
                                    take_profit_target |-> 50],
                                   TRUE, TRUE).decision
                  r == execute(w, d, krw, xs[m], clock)
              IN  signal_loop(cfg, r.w, Tail(todo), f, krw, xs, clock,
                              Append(calls, r.call))

\* The calls of one phase of a cycle, in the order they were made
Phase(name, calls) == [k \in 1..Len(calls) |-> [phase |-> name, call |-> calls[k]]]

\* Variant: the loop over the markets runs before check_and_manage_positions
\* (line 345 moved after line 520).
run_cycle_signals_first(cfg, w, in, clock) ==
    IF in.balances # "ok"
    THEN [w |-> w, steps |-> << >>, inserted |-> 0, trace |-> << >>]
    ELSE LET pos1 == reconcile(w.pos, w.hold, in.prices, in.avgs, clock, 1)
             w1 == [w EXCEPT !.pos = pos1]
             s == signal_loop(cfg, w1, in.todo, in.f, in.krw, in.xs, clock, << >>)
             c == check_and_manage_positions(s.w, in.prices, in.feed,
                                             [i \in 1..Len(s.w.pos) |-> in.x], clock)
         IN  [w |-> c.w, steps |-> <<"reconcile", "signals", "risk_exit">>,
              inserted |-> Len(pos1) - Len(w.pos),
              trace |-> Phase("signal", s.calls) \o Phase("exit", c.calls)]

\* run_cycle.  in.balances: get_balances answers or raises (the cycle then
\* ends at line 337 without trading); in.prices, in.avgs, in.krw: the quotes,
\* average buy prices and KRW balance it reads; in.feed, in.x: the price feed
\* and the answers met by check_and_manage_positions; in.todo, in.f, in.xs:
\* the markets, their signals and the answers met by the signal loop.
run_cycle(cfg, w, in, clock) ==
    IF in.balances # "ok"
    THEN [w |-> w, steps |-> << >>, inserted |-> 0, trace |-> << >>]
    ELSE LET pos1 == reconcile(w.pos, w.hold, in.prices, in.avgs, clock, 1)
             w1 == [w EXCEPT !.pos = pos1]
             c == check_and_manage_positions(w1, in.prices, in.feed,
                                             [i \in 1..Len(pos1) |-> in.x], clock)
             s == signal_loop(cfg, c.w, in.todo, in.f, in.krw, in.xs, clock, << >>)
         IN  [w |-> s.w, steps |-> <<"reconcile", "risk_exit", "signals">>,
              inserted |-> Len(pos1) - Len(w.pos),
              trace |-> Phase("exit", c.calls) \o Phase("signal", s.calls)]

----------------------------------------------------------------------------
(* The streaming loop: PumpPredictor.detect_peak and run_pump_detection_loop *)

session_budget == 55      \* seconds (line 794)
recv_timeout == 1         \* seconds (line 796)
trailing_stop_pct == 15   \* per mille (peak_thresholds)
rsi_overbought == 75
peak_profit_pct == 3      \* percent (line 195)
default_rsi == 50         \* df.iloc[-1].get('rsi', 50): the candles carry no rsi
NoRsi == -1               \* rsi=None: no candles cached for the market

\* position_high_prices[market]: price 0 stands for a missing key.  carried
\* records that the loop has closed a position of the market since the mark
\* was set.
NoMark == [price |-> 0, carried |-> FALSE]

\* PumpPredictor.detect_peak: the mark after lines 166-169, whether a SELL
\* signal is returned and its confidence.  raised: the division by
\* entry_price (line 181) fails, after the mark was written.
detect_peak(mark, current_price, entry_price, rsi) ==
    LET high_price == IF mark.price = 0 THEN current_price
                      ELSE Max(mark.price, current_price)
        trailing_stop_triggered ==
            (current_price - high_price) * 1000 <= -trailing_stop_pct * high_price
        overbought == rsi # NoRsi /\ rsi >= rsi_overbought
        target == (current_price - entry_price) * 100 >= peak_profit_pct * entry_price
        confidence == 50 + (IF trailing_stop_triggered THEN 25 ELSE 0)
                         + (IF overbought THEN 15 ELSE 0)
                         + (IF target THEN 10 ELSE 0)
    IN  [mark |-> [mark EXCEPT !.price = high_price],
         raised |-> entry_price = 0,
         sell |-> entry_price # 0 /\ (trailing_stop_triggered \/ overbought \/ target),
         confidence |-> Min(confidence, 95)]

\* PumpPredictor.clear_position
clear_position(high, market) == [high EXCEPT ![market] = NoMark]

\* Lines 995-996: the trend-broken exit deletes the market from
\* monitored_positions and leaves position_high_prices alone; a mark that is
\* there is carried past the close.
keep_mark(high, market) ==
    [high EXCEPT ![market] = IF @.price = 0 THEN @ ELSE [@ EXCEPT !.carried = TRUE]]

\* A row object of the loop's database session that holds no loaded
\* attributes: never loaded, or expired by a commit or rollback of the
\* session (sessionmaker's expire_on_commit)
Unloaded ==
    [market |-> "none", entry_price |-> 0, stop_loss |-> 0, take_profit |-> 0,
     status |-> "UNLOADED", created_at |-> 0]

\* The attributes of row i as the session sees them: an unloaded object is
\* read from the table on access, a loaded one is not read again.
loaded(cache, pos, i) == IF cache[i] = Unloaded THEN pos[i] ELSE cache[i]

\* The session's objects after a call of the executor: the trade-log block
\* (engine.py lines 344-365) ends in db.commit() or db.rollback(), and both
\* expire every object of the session.
after_call(cache, call) ==
    IF call.logged THEN [i \in DOMAIN cache |-> Unloaded] ELSE cache

\* What one message did.  basis: the monitored row a SELL of block [A] was
\* decided on, with its attributes as the session held them (held) and its
\* row in the table at that moment (stored).
NoPeak == [called |-> FALSE, mark |-> NoMark]

TickEvent(msg, rule, basis, held, stored, peak, calls) ==
    [kind |-> "message", market |-> msg.market, price |-> msg.price,
     signal |-> msg.signal, rule |-> rule, basis |-> basis, held |-> held,
     stored |-> stored, peak |-> peak, calls |-> calls]

\* The SELL of lines 816, 825, 839-842, 991-994 and the BUY of lines 979-985
stream_sell(market, confidence, rationale, emergency) ==
    TradeDecisionResult(TRUE, "SELL", market, confidence, rationale, emergency, 100, 30, 50)

breakout_buy(market, confidence) ==
    TradeDecisionResult(TRUE, "BUY", market, confidence, "Trend Breakout", FALSE, 20, 20, 50)

\* An exit of block [A] (lines 814-846) for the monitored row i: the executor
\* call, clear_position, del monitored_positions[market], continue
stream_exit(s, w, msg, rule, d, seen, clock) ==
    LET i == s.monitored[msg.market]
        r == execute(w, d, NoBalance, msg.x, clock)
    IN  [s |-> [s EXCEPT !.monitored[msg.market] = 0,
                         !.high = clear_position(@, msg.market),
                         !.cache = after_call(@, r.call),
                         !.last = TickEvent(msg, rule, i, s.cache[i], w.pos[i], seen,
                                            <<r.call>>)],
         w |-> r.w, next |-> "continue"]

\* Block [A] (lines 810-846) for a market of monitored_positions: stop loss,
\* take profit, then detect_peak.  next: "continue" (the message is done),
\* "raise" (detect_peak raised: the except of line 1000 ends the session) or
\* "entry" (block [B] follows).
block_a(s, w, msg, clock) ==
    LET m == msg.market
        i == s.monitored[m]
        pos == loaded(s.cache, w.pos, i)
        s1 == [s EXCEPT !.cache[i] = pos]
        rsi == IF s.dfs[m] THEN default_rsi ELSE NoRsi
        p == detect_peak(s.high[m], msg.price, pos.entry_price, rsi)
        s2 == [s1 EXCEPT !.high[m] = p.mark]
        seen == [called |-> TRUE, mark |-> s.high[m]]
    IN  IF msg.price * 1000 <= pos.stop_loss
        THEN stream_exit(s1, w, msg, "stop_loss",
                         stream_sell(m, 100, "Real-time Stop Loss", TRUE), NoPeak, clock)
        ELSE IF msg.price * 1000 >= pos.take_profit
        THEN stream_exit(s1, w, msg, "take_profit",
                         stream_sell(m, 100, "Real-time Take Profit", FALSE), NoPeak, clock)
        ELSE IF p.raised
        THEN [s |-> [s2 EXCEPT !.last = TickEvent(msg, "raise", i, pos, w.pos[i], seen, << >>)],
              w |-> w, next |-> "raise"]
        ELSE IF p.sell
        THEN stream_exit(s2, w, msg, "peak",
                         stream_sell(m, p.confidence, "Peak Sell", FALSE), seen, clock)
        ELSE [s |-> [s2 EXCEPT !.last = TickEvent(msg, "none", i, pos, w.pos[i], seen, << >>)],
              w |-> w, next |-> "entry"]

\* Block [B] (lines 851-996).  cached_dfs is filled for the breakout mode
\* only (line 766): in the momentum mode every message ends at line 854.
\* msg.signal, msg.confidence: the answer of breakout_strategy.analyze;
\* existing: the row the query of line 974 returns (0: none).
block_b(s, w, msg, existing, clock) ==
    LET m == msg.market IN
    IF s.mode # "breakout_strategy" \/ ~s.dfs[m]
    THEN [s |-> s, w |-> w]
    ELSE IF msg.signal = "BUY" /\ s.monitored[m] = 0
    THEN IF existing # 0
         THEN [s |-> [s EXCEPT !.monitored[m] = existing,
                               !.cache[existing] = loaded(s.cache, w.pos, existing),
                               !.last.rule = "existing"],
               w |-> w]
         ELSE LET r == execute(w, breakout_buy(m, msg.confidence), NoBalance, msg.x, clock)
              IN  [s |-> [s EXCEPT !.cache = after_call(@, r.call),
                                   !.last.rule = "buy", !.last.calls = <<r.call>>],
                   w |-> r.w]
    ELSE IF msg.signal = "SELL" /\ s.monitored[m] # 0
    THEN LET r == execute(w, stream_sell(m, msg.confidence, "Trend Broken", FALSE),
                          NoBalance, msg.x, clock)
         IN  [s |-> [s EXCEPT !.monitored[m] = 0,
                              !.high = keep_mark(@, m),
                              !.cache = after_call(@, r.call),
                              !.last.rule = "trend_broken", !.last.calls = <<r.call>>],
              w |-> r.w]
    ELSE [s |-> s, w |-> w]

\* One message of the subscription (lines 804-996).  raised: an exception
\* left the loop body.
on_message(s, w, msg, existing, clock) ==
    LET fresh == [s EXCEPT !.last = TickEvent(msg, "none", 0, Unloaded, Unloaded,
                                              NoPeak, << >>)]
    IN  IF s.monitored[msg.market] # 0
        THEN LET a == block_a(s, w, msg, clock) IN
             IF a.next = "entry"
             THEN LET b == block_b(a.s, a.w, msg, existing, clock)
                  IN  [s |-> b.s, w |-> b.w, raised |-> FALSE]
             ELSE [s |-> a.s, w |-> a.w, raised |-> a.next = "raise"]
        ELSE LET b == block_b(fresh, w, msg, existing, clock)
             IN  [s |-> b.s, w |-> b.w, raised |-> FALSE]

\* monitored_positions = {p.market: p for p in open_positions} (line 783):
\* the last OPEN row of a market in query order
monitored_positions(pos) ==
    [m \in Markets |->
        IF OpenOf(pos, m) = {} THEN 0
        ELSE CHOOSE i \in OpenOf(pos, m) : \A j \in OpenOf(pos, m) : j <= i]

\* Line 736-738: no config row, no option, or the reversal option run the
\* breakout mode
strategy_mode(option) ==
    IF option \in {"none", "reversal_strategy"} THEN "breakout_strategy" ELSE option

\* Variant: the receive has no timeout (websocket.recv() awaited alone).
recv_unbounded(waited) ==
    FALSE

\* Line 796: wait_for gives up once the receive has waited recv_timeout
\* seconds.
recv_timed_out(waited) ==
    waited >= recv_timeout

----------------------------------------------------------------------------
(* The signal layers *)

volatility_threshold == 2     \* percent
rsi_sell_threshold == 75
rsi_buy_threshold == 25
min_reversal_rows == 15
bb_window == 20             \* rows of the rolling mean and deviation

\* ReversalTradingStrategy.analyze (lines 31-72).  rows: len(df); rsi,
\* bb_upper, bb_lower: the indicators of the last candle; prev_close: its
\* close.  The bands of a window shorter than bb_window are NaN, and every
\* comparison with them is false.  Confidence in percent.
reversal_analyze(rows, current_price, rsi, bb_upper, bb_lower, prev_close) ==
    LET surge == (current_price - prev_close) * 100 > volatility_threshold * prev_close
        drop == (current_price - prev_close) * 100 < -volatility_threshold * prev_close
        banded == rows >= bb_window
    IN  IF rows < min_reversal_rows THEN [action |-> "HOLD", confidence |-> 0]
        ELSE IF banded /\ current_price > bb_upper /\ rsi > rsi_sell_threshold
        THEN IF surge
             THEN [action |-> "SELL", confidence |-> 85 + (Min(rsi, 90) - 70)]
             ELSE [action |-> "HOLD", confidence |-> 0]
        ELSE IF banded /\ current_price < bb_lower /\ rsi < rsi_buy_threshold
        THEN IF drop
             THEN [action |-> "BUY", confidence |-> 85 + (30 - Max(rsi, 10))]
             ELSE [action |-> "HOLD", confidence |-> 0]
        ELSE [action |-> "HOLD", confidence |-> 0]

vol_multiplier == 15         \* tenths: 1.5 times the 20-candle average volume
rsi_min == 45
rsi_max == 88
min_breakout_rows == 50

\* The BUY part of BreakoutTradingStrategy.analyze (lines 68-108), entered
\* on a volume surge with the RSI within [rsi_min, rsi_max]: the confidence,
\* in percent, and the number of supporting signals (len(msg)).  The 3x
\* volume step is an elif of the 2x step.
breakout_score(current, recent_high) ==
    LET price_breakout == current.close > current.ma20 /\ current.close > current.open
        new_high == current.close > recent_high
        trend_up == current.ma5 > current.ma20
        explosion == current.volume > current.vol_ma20 * 2
        momentum == 55 <= current.rsi /\ current.rsi <= 70
        confidence == 55 + (IF price_breakout THEN 15 ELSE 0)
                         + (IF new_high THEN 20 ELSE 0)
                         + (IF trend_up THEN 10 ELSE 0)
                         + (IF explosion THEN 15 ELSE 0)
                         + (IF momentum THEN 5 ELSE 0)
        signals == (IF price_breakout THEN 1 ELSE 0) + (IF new_high THEN 1 ELSE 0)
                   + (IF trend_up THEN 1 ELSE 0) + (IF explosion THEN 1 ELSE 0)
                   + (IF momentum THEN 1 ELSE 0)
    IN  [confidence |-> Min(confidence, 95), signals |-> signals]

\* The SELL part of analyze (lines 115-139)
trend_broken(current, prev) ==
    IF prev.rsi >= 80 /\ current.rsi < 78 THEN [action |-> "SELL", confidence |-> 85]
    ELSE IF current.rsi > 88 THEN [action |-> "SELL", confidence |-> 75]
    ELSE IF current.ma5 < current.ma20 THEN [action |-> "SELL", confidence |-> 80]
    ELSE IF current.close * 1000 < current.ma20 * 995
    THEN [action |-> "SELL", confidence |-> 70]
    ELSE IF (current.close - prev.close) * 1000 <= -15 * prev.close
    THEN [action |-> "SELL", confidence |-> 75]
    ELSE [action |-> "HOLD", confidence |-> 0]

\* BreakoutTradingStrategy.analyze (lines 29-139).  rows: len(df); current,
\* prev: the last two candles with their indicators; recent_high: the
\* highest high of the 20 candles before them.
breakout_analyze(rows, current, prev, recent_high) ==
    LET vol_surge == current.volume * 10 > current.vol_ma20 * vol_multiplier
        rsi_condition == current.rsi >= rsi_min /\ current.rsi <= rsi_max
        score == breakout_score(current, recent_high)
    IN  IF rows < min_breakout_rows THEN [action |-> "HOLD", confidence |-> 0]
        ELSE IF vol_surge /\ rsi_condition /\ score.signals >= 1
        THEN [action |-> "BUY", confidence |-> score.confidence]
        ELSE trend_broken(current, prev)

\* rl_action of a missing RL output (None)
NoRl == "NONE"

\* _combine_signals, lines 214-266: the vote of three layers.  The winner is
\* the first signal, in the order hybrid, multi_tf, rl, with the most votes;
\* its confidence is the average of its voters weighted 0.3 / 0.3 / 0.4,
\* kept on unanimity, times 0.8 on two votes, times 0.6 on one.  Confidences
\* in percent, the result in per mille, rounded down.
layer_vote(hybrid_action, hybrid_conf, multi_tf_action, multi_tf_conf, rl_action, rl_conf) ==
    LET votes(a) == (IF hybrid_action = a THEN 1 ELSE 0)
                    + (IF multi_tf_action = a THEN 1 ELSE 0)
                    + (IF rl_action = a THEN 1 ELSE 0)
        winning_signal == IF votes(hybrid_action) >= votes(multi_tf_action)
                             /\ votes(hybrid_action) >= votes(rl_action)
                          THEN hybrid_action
                          ELSE IF votes(multi_tf_action) >= votes(rl_action)
                          THEN multi_tf_action
                          ELSE rl_action
        total_conf == (IF hybrid_action = winning_signal THEN hybrid_conf * 3 ELSE 0)
                      + (IF multi_tf_action = winning_signal THEN multi_tf_conf * 3 ELSE 0)
                      + (IF rl_action = winning_signal THEN rl_conf * 4 ELSE 0)
        total_weight == (IF hybrid_action = winning_signal THEN 3 ELSE 0)
                        + (IF multi_tf_action = winning_signal THEN 3 ELSE 0)
                        + (IF rl_action = winning_signal THEN 4 ELSE 0)
        factor == IF votes(winning_signal) = 3 THEN 10
                  ELSE IF votes(winning_signal) = 2 THEN 8
                  ELSE 6
    IN  [action |-> winning_signal,
         confidence |-> (total_conf * factor) \div total_weight,
         path |-> "vote"]

\* Variant: the agreement of the two layers is not capped at 0.95.
combine_signals_uncapped(hybrid_action, hybrid_conf, multi_tf_action, multi_tf_conf, rl_action, rl_conf, has_rl) ==
    IF rl_action = NoRl \/ ~has_rl
    THEN IF hybrid_action = "HOLD" /\ multi_tf_action = "HOLD"
         THEN [action |-> "HOLD", confidence |-> 300, path |-> "pair"]
         ELSE IF hybrid_action = multi_tf_action
         THEN [action |-> hybrid_action,
               confidence |-> (hybrid_conf + multi_tf_conf) * 6,
               path |-> "pair"]
         ELSE IF multi_tf_action = "HOLD"
         THEN [action |-> hybrid_action, confidence |-> hybrid_conf * 9, path |-> "pair"]
         ELSE IF hybrid_action = "HOLD"
         THEN [action |-> multi_tf_action, confidence |-> multi_tf_conf * 9, path |-> "pair"]
         ELSE IF hybrid_conf > multi_tf_conf
         THEN [action |-> hybrid_action, confidence |-> hybrid_conf * 6, path |-> "pair"]
         ELSE [action |-> multi_tf_action, confidence |-> multi_tf_conf * 6, path |-> "pair"]
    ELSE layer_vote(hybrid_action, hybrid_conf, multi_tf_action, multi_tf_conf,
                    rl_action, rl_conf)

\* EnhancedTradingEngine._combine_signals (lines 168-266).  Confidences in
\* percent, the result in per mille; path tells which of the two parts of the
\* function returned.
combine_signals(hybrid_action, hybrid_conf, multi_tf_action, multi_tf_conf, rl_action, rl_conf, has_rl) ==
    IF rl_action = NoRl \/ ~has_rl
    THEN IF hybrid_action = "HOLD" /\ multi_tf_action = "HOLD"
         THEN [action |-> "HOLD", confidence |-> 300, path |-> "pair"]
         ELSE IF hybrid_action = multi_tf_action
         THEN [action |-> hybrid_action,
               confidence |-> Min(950, (hybrid_conf + multi_tf_conf) * 6),
               path |-> "pair"]
         ELSE IF multi_tf_action = "HOLD"
         THEN [action |-> hybrid_action, confidence |-> hybrid_conf * 9, path |-> "pair"]
         ELSE IF hybrid_action = "HOLD"
         THEN [action |-> multi_tf_action, confidence |-> multi_tf_conf * 9, path |-> "pair"]
         ELSE IF hybrid_conf > multi_tf_conf
         THEN [action |-> hybrid_action, confidence |-> hybrid_conf * 6, path |-> "pair"]
         ELSE [action |-> multi_tf_action, confidence |-> multi_tf_conf * 6, path |-> "pair"]
    ELSE layer_vote(hybrid_action, hybrid_conf, multi_tf_action, multi_tf_conf,
                    rl_action, rl_conf)

max_history_size == 120

\* PumpPredictor.update_tick (lines 76-89) on the history of one market:
\* the sample <<timestamp, price, volume>> is appended, then the samples not
\* younger than max_history_size seconds are dropped.
update_tick(price_history, clock, price, volume) ==
    LET appended == Append(price_history, <<clock, price, volume>>)
        cutoff == clock - max_history_size
    IN  SelectSeq(appended, LAMBDA sample : sample[1] > cutoff)

----------------------------------------------------------------------------
(* Input domains of the operations *)

\* Instants (minutes) at which the operations run
Times == {0, 31}

\* Quotes around an entry of 1000: -4%, -3%, -2%, +2%, +6%; 0 stands for a market
\* missing from the price answer
Prices == {960, 970, 980, 1020, 1060}
SyncPrices == {980, 1000}
\* avg_buy_price as the exchange reports it; 0 for deposited coins
AvgPrices == {0, 1000}

\* The market the position-lifecycle runs trade and quote
Traded == {"KRW-BTC"}

\* Price answers of a pass: one quote (or none) for the traded market
QuoteTable(p) == [m \in Markets |-> IF m \in Traded THEN p ELSE 0]

\* KRW balances a caller passes or the exchange reports: below the minimum,
\* between the minimum and the bump, and large enough for a bumped and for an
\* unbumped 10% order
KrwLevels == {3000, 5500, 30000, 70000}

\* Confidence values (percent) of stored states and of new signals
Confidences == {69, 70, 74, 75, 80}
StoredConfidences == {0, 89, 90, 92}

\* Predictor outputs: buy / sell probability, emergency score, confidence
MLSignals ==
    {[buy |-> p[1], sell |-> p[2], emergency_score |-> e, confidence |-> c] :
        p \in {<<80, 10>>, <<10, 80>>, <<60, 60>>, <<95, 10>>},
        e \in {92, 93}, c \in {0, 70}}

Volatilities == {95, 96}
Verdicts == {"yes", "no", "unknown"}

\* The verifier's part of decide's inputs: off, or on with every pair of
\* verdicts, with and without account_info
VerifierCases ==
    {[use_ai |-> FALSE, groq |-> "yes", ollama |-> "yes", account |-> TRUE]}
    \cup [use_ai : {TRUE}, groq : Verdicts, ollama : Verdicts, account : BOOLEAN]

\* The verifiers were not asked
NoVerdicts == [groq |-> "none", ollama |-> "none", account |-> FALSE]

\* Outcomes of the filter's two Redis reads
RedisReads == {<<TRUE, TRUE>>, <<FALSE, TRUE>>, <<TRUE, FALSE>>}

\* Answers of verifier.decide_investment_ratio
LlmSizing ==
    [investment_ratio |-> 50, max_loss_acceptable |-> 20, take_profit_target |-> 80]

\* The exchange, price feed and Redis as one executor call meets them
Answer(krw, order, bal, quote, fill, redis, db, log) ==
    [krw |-> krw, order |-> order, bal |-> bal, quote |-> quote, fill |-> fill,
     redis |-> redis, db |-> db, log |-> log]

AllGood == Answer(30000, "ok", "value", "ok", 1000, "ok", "ok", "ok")

\* One deviation from AllGood at a time: the order, the held-balance query,
\* the quote after a BUY, the Redis write, the commit of the Position rows,
\* the commit of the trade log
ExecAnswers ==
    {AllGood}
    \cup {[AllGood EXCEPT !.order = o] : o \in {"rejected", "raise"}}
    \cup {[AllGood EXCEPT !.bal = b] : b \in {"none", "raise"}}
    \cup {[AllGood EXCEPT !.quote = q] : q \in {"none", "raise"}}
    \cup {[AllGood EXCEPT !.redis = "fail"]}
    \cup {[AllGood EXCEPT !.db = "fail"], [AllGood EXCEPT !.log = "fail"]}

\* Where the sizing balance comes from: the argument, or (argument None) the
\* answer of get_balance("KRW")
BalanceSources ==
    {[avail |-> a, krw |-> 30000] : a \in KrwLevels}
    \cup {[avail |-> NoBalance, krw |-> k] : k \in {3000, 30000, NoBalance, Raises}}

\* The sources whose balance passes the sizing gate
SizedSources ==
    {[avail |-> 30000, krw |-> 30000], [avail |-> NoBalance, krw |-> 30000]}

\* The answers met by the exit SELLs of one position check
\* In the position-lifecycle runs Redis is unreachable: set_last_signal's
\* writes are lost in its except branch, and the rows never depend on them.
NoRedis == [AllGood EXCEPT !.redis = "fail"]

CheckAnswers ==
    {NoRedis,
     [NoRedis EXCEPT !.krw = 3000],
     [NoRedis EXCEPT !.order = "rejected"],
     [NoRedis EXCEPT !.order = "raise"]}

\* The balances and answers met by the trades of the cadences in the
\* position-lifecycle runs
TradeSources ==
    {[avail |-> 30000, krw |-> 30000], [avail |-> NoBalance, krw |-> 3000]}

TradeAnswers ==
    {NoRedis, [NoRedis EXCEPT !.order = "rejected"]}

\* Decisions handed to execute by run_cycle (the position check aside): the
\* BUY that engine.decide returns on the fallback path at confidence 0.60
\* (auto ratio 0.10, stop 3% / target 5%), a full-size SELL with the default
\* stop and target, the HOLD of the enhanced path, and the BUY that
\* engine.decide returns unapproved when one verifier rejects it
CallerDecisions(m) ==
    {TradeDecisionResult(TRUE, "BUY", m, 60, "signal buy", FALSE, 10, 30, 50),
     TradeDecisionResult(TRUE, "SELL", m, 100, "signal sell", FALSE, 100, 30, 50),
     TradeDecisionResult(FALSE, "HOLD", m, 40, "hold", FALSE, 0, 30, 50),
     TradeDecisionResult(FALSE, "BUY", m, 80, "veto", FALSE, 30, 30, 50)}

\* The markets the cadences go through, in their order
CadenceOrder == <<"KRW-BTC", "KRW-ETH">>

\* Answers met by the executor calls of the cadences: Redis answers, the
\* order is confirmed or rejected
CadenceAnswers == {AllGood, [AllGood EXCEPT !.order = "rejected"]}

\* What a tick has for one market
TickFeed(data, fault, buy, sell) ==
    [data |-> data, fault |-> fault, buy |-> buy, sell |-> sell]

\* For the first market: a BUY at 0.92, a BUY at 0.70, a SELL at 0.80, a
\* signal below tick_min_confidence, a predictor that raises, too few rows
TickSignals ==
    {TickFeed(TRUE, "none", 92, 5), TickFeed(TRUE, "none", 70, 10),
     TickFeed(TRUE, "none", 10, 80), TickFeed(TRUE, "none", 50, 40),
     TickFeed(TRUE, "infer", 92, 5), TickFeed(FALSE, "none", 92, 5)}

\* For the market after it: too few rows, or a BUY at 0.92
LaterTickSignals == {TickFeed(FALSE, "none", 92, 5), TickFeed(TRUE, "none", 92, 5)}

\* What a tick cycle meets: the balances answer, the KRW balance, the signals
TickInputs ==
    {[feed |-> b.feed, krw |-> b.krw, x |-> b.x,
      mls |-> [m \in Markets |-> IF m = Head(CadenceOrder) THEN b.ml ELSE b.later]] :
        b \in [feed : {"ok"}, ml : TickSignals, later : LaterTickSignals,
               krw : {30000}, x : CadenceAnswers]
              \cup [feed : {"ok", "raise"}, ml : {TickFeed(TRUE, "none", 92, 5)},
                    later : {TickFeed(FALSE, "none", 92, 5)}, krw : {0}, x : {AllGood}]}

\* Candle metrics of an emergency check: a crash, a surge on volume, a calm
\* minute, no candles
Candles(c1, c3, c5, vr, vol) ==
    [candles |-> "ok", change_1m |-> c1, change_3m |-> c3, change_5m |-> c5,
     volume_ratio |-> vr, volatile |-> vol]

EmergencyMetrics ==
    {Candles(-20, 0, 0, 10, FALSE), Candles(30, 0, 0, 30, FALSE),
     Candles(0, 0, 0, 10, FALSE), [Candles(0, 0, 0, 10, FALSE) EXCEPT !.candles = "none"]}

\* What an emergency check meets: a KRW balance that covers
\* default_trade_amount or not, the order confirmed or rejected
EmergencyAnswers ==
    {[AllGood EXCEPT !.krw = 70000], AllGood,
     [AllGood EXCEPT !.krw = 70000, !.order = "rejected"]}

\* The first market moves; the market after it has a calm minute
EmergencyInputs ==
    {[feed |-> b.feed, x |-> b.x,
      metrics |-> [m \in Markets |-> IF m = Head(CadenceOrder) THEN b.c
                                     ELSE Candles(0, 0, 0, 10, FALSE)]] :
        b \in [feed : {"ok"}, c : EmergencyMetrics, x : EmergencyAnswers]
              \cup [feed : {"raise"}, c : {Candles(-20, 0, 0, 10, FALSE)}, x : {AllGood}]}

\* What the main cycle has for one market: the enhanced engine's signal with
\* the last close, or the fallback through TradingEngine.decide on the
\* predictor's BUY at 0.80
CycleSignal(data, enhanced, fault, action, confidence, close) ==
    [data |-> data, enhanced |-> enhanced, fault |-> fault,
     sig |-> [action |-> action, confidence |-> confidence], close |-> close,
     ml |-> [buy |-> 80, sell |-> 10, emergency_score |-> 50, confidence |-> 70],
     volatility |-> 50]

\* For the first market: BUY at 0.92, BUY at 0.60 and HOLD under the entry,
\* the fallback, too few rows, indicators or a signal that raise
CycleSignals ==
    {CycleSignal(TRUE, TRUE, "none", "BUY", 92, 1000),
     CycleSignal(TRUE, TRUE, "none", "BUY", 60, 960),
     CycleSignal(TRUE, TRUE, "none", "HOLD", 40, 960),
     CycleSignal(TRUE, FALSE, "none", "HOLD", 0, 1000),
     CycleSignal(FALSE, TRUE, "none", "HOLD", 0, 1000),
     CycleSignal(TRUE, TRUE, "indicators", "BUY", 92, 1000),
     CycleSignal(TRUE, TRUE, "signal", "BUY", 92, 1000)}

\* For the market after it: too few rows, or a BUY at 0.92
LaterCycleSignals ==
    {CycleSignal(FALSE, TRUE, "none", "HOLD", 0, 1000),
     CycleSignal(TRUE, TRUE, "none", "BUY", 92, 1000)}

\* What a main cycle meets
CycleInputs ==
    {[balances |-> b.balances, prices |-> QuoteTable(b.p),
      avgs |-> [m \in Markets |-> 1000], krw |-> 30000, feed |-> "ok", x |-> AllGood,
      todo |-> CadenceOrder,
      f |-> [m \in Markets |-> IF m = Head(CadenceOrder) THEN b.f ELSE b.later],
      xs |-> [m \in Markets |-> AllGood]] :
        b \in [balances : {"ok"}, p : {970, 1000}, f : CycleSignals,
               later : LaterCycleSignals]
              \cup [balances : {"raise"}, p : {1000},
                    f : {CycleSignal(TRUE, TRUE, "none", "BUY", 92, 1000)},
                    later : {CycleSignal(FALSE, TRUE, "none", "HOLD", 0, 1000)}]}

\* Ticker prices of the subscription around an entry of 1000
StreamPrices == {980, 1000, 1020, 1060}

\* What the executor calls of the loop meet (Redis unreachable, as in the
\* position-lifecycle runs)
StreamAnswers == {NoRedis, [NoRedis EXCEPT !.order = "rejected"]}

\* A ticker message with the answer breakout_strategy.analyze gives on it
StreamMessages(markets, prices) ==
    [market : markets, price : prices, signal : Actions, confidence : {80}, x : StreamAnswers]

\* strategy_option of the config row ("none": no row, or no option)
StrategyOptions == {"none", "breakout_strategy", "momentum_strategy", "reversal_strategy"}

\* The main cycles that run beside the loop: a quote under or over the entry,
\* a BUY at 0.92 or too few rows for the first market
StreamCycleInputs ==
    {[balances |-> "ok", prices |-> QuoteTable(p),
      avgs |-> [m \in Markets |-> 1000], krw |-> 30000, feed |-> "ok", x |-> NoRedis,
      todo |-> CadenceOrder,
      f |-> [m \in Markets |-> IF m = Head(CadenceOrder) THEN f
                               ELSE CycleSignal(FALSE, TRUE, "none", "HOLD", 0, 1000)],
      xs |-> [m \in Markets |-> NoRedis]] :
        p \in {970, 1030},
        f \in {CycleSignal(TRUE, TRUE, "none", "BUY", 92, 1000),
               CycleSignal(FALSE, TRUE, "none", "HOLD", 0, 1000)}}

\* Confidences on both sides of every step of the sizing ladders, and ATRs
\* from 0.5% to 10% of a close of 1000 (0: no ATR; close 0: no close)
SizingConfidences == {50, 64, 65, 69, 70, 74, 75, 79, 80, 84, 85, 89, 90, 95, 100}
AtrValues == {0, 5, 8, 10, 12, 20, 27, 30, 40, 50, 100}
ClosePrices == {0, 1000}

\* RSI values on both sides of the two thresholds and of the two clamps;
\* prices under, between and over Bollinger bands of 980 and 1020 around a
\* last close of 1000
RsiValues == {5, 10, 15, 24, 25, 50, 75, 76, 85, 90, 95}
ReversalPrices == {950, 975, 1000, 1025, 1050}

\* ticks of the feed per second, and the seconds a feed is followed
TickRates == {1, 2}
MaxTickClock == 125

\* Outputs of the layers of the enhanced engine
LayerActions == {"BUY", "SELL", "HOLD"}
LayerConfidences == {0, 50, 70, 80, 90}
RlOutputs == {[action |-> NoRl, confidence |-> 0]}
             \cup [action : LayerActions, confidence : {60}]

\* Last candles around a 20-candle average price of 1000 and average volume
\* of 100: close under and over the averages, volume without a surge, over
\* 1.5x and over 2x, RSI under, within and over [rsi_min, rsi_max]
BreakoutCandles == [close : {980, 1030}, open : {1000}, ma5 : {990, 1010}, ma20 : {1000},
                    volume : {100, 160, 250}, vol_ma20 : {100},
                    rsi : {25, 45, 60, 80, 90}]
PrevCandles == [close : {1000}, rsi : {50, 85}]
RecentHighs == {1020, 1050}

World == [pos |-> positions, ls |-> last_signal, lc |-> last_confidence,
          hold |-> holdings]

Install(w) ==
    /\ positions' = w.pos
    /\ last_signal' = w.ls
    /\ last_confidence' = w.lc
    /\ holdings' = w.hold

----------------------------------------------------------------------------
(* Initial state: empty tables, no Redis keys, nothing held *)

\* No operation is running; out holds the record of the operation that is
\* about to return otherwise.
Idle == [op |-> "idle"]

Init ==
    /\ config = "absent"
    /\ last_signal = [m \in Markets |-> NoSignal]
    /\ last_confidence = [m \in Markets |-> NoKey]
    /\ positions = << >>
    /\ holdings = [m \in Markets |-> 0]
    /\ now = 0
    /\ out = Idle
    /\ emergency_orders = [m \in Markets |-> NoOrder]

----------------------------------------------------------------------------
(* Operations *)

\* The config API writes the AutoTradingConfig row.
SetConfig ==
    /\ \E c \in {"inactive", "active"} : config' = c /\ config # c
    /\ out = Idle /\ out' = Idle
    /\ UNCHANGED <<emergency_orders, last_signal, last_confidence, positions, holdings, now>>

\* Time passes.
Tick ==
    /\ \E t \in Times :
         /\ t > now
         /\ \A u \in Times : u > now => t <= u
         /\ now' = t
    /\ out = Idle /\ out' = Idle
    /\ UNCHANGED <<emergency_orders, config, last_signal, last_confidence, positions, holdings>>

\* A Redis key reaches its TTL (setex ..., self.ttl, ...).
ExpireKey ==
    /\ \E m \in Markets :
         \/ /\ last_signal[m] # NoSignal
            /\ last_signal' = [last_signal EXCEPT ![m] = NoSignal]
            /\ UNCHANGED last_confidence
         \/ /\ last_confidence[m] # NoKey
            /\ last_confidence' = [last_confidence EXCEPT ![m] = NoKey]
            /\ UNCHANGED last_signal
    /\ out = Idle /\ out' = Idle
    /\ UNCHANGED <<emergency_orders, config, positions, holdings, now>>

\* The account holder moves coins outside the bot (manual trade, deposit).
ExchangeTransferOver(markets) ==
    /\ \E m \in markets, q \in Coins :
         /\ holdings[m] # q
         /\ holdings' = [holdings EXCEPT ![m] = q]
    /\ out = Idle /\ out' = Idle
    /\ UNCHANGED <<emergency_orders, config, last_signal, last_confidence, positions, now>>

ExchangeTransfer == ExchangeTransferOver(Markets)

AccountTransfer == ExchangeTransferOver(Traded)

\* SignalFilter.should_allow_trade on its own
FilterQuery ==
    /\ out = Idle
    /\ \E m \in Markets, sig \in Actions, c \in Confidences, rs \in BOOLEAN, rc \in BOOLEAN :
         out' = [op |-> "filter", market |-> m, signal |-> sig, confidence |-> c,
                 rs |-> rs, rc |-> rc,
                 result |-> should_allow_trade(last_signal, last_confidence,
                                               m, sig, c, rs, rc)]
    /\ UNCHANGED <<emergency_orders, config, last_signal, last_confidence, positions, holdings, now>>

\* SignalFilter.set_last_signal on its own (the executor is its only caller)
StoreSignal ==
    /\ \E m \in Markets, sig \in {"BUY", "SELL"}, c \in StoredConfidences,
          r \in {"ok", "fail", "partial"} :
         /\ last_signal' = set_signal_key(last_signal, m, sig, r)
         /\ last_confidence' = set_confidence_key(last_confidence, m, c, r)
    /\ out = Idle /\ out' = Idle
    /\ UNCHANGED <<emergency_orders, config, positions, holdings, now>>

\* TradingEngine.decide on its own
Decide ==
    /\ out = Idle
    /\ \E m \in Markets, ml \in MLSignals, v \in Volatilities, c \in VerifierCases,
          rd \in RedisReads :
         LET r == decide(config, last_signal, last_confidence, m, ml, v, c.use_ai,
                         c.groq, c.ollama, c.account, LlmSizing, rd[1], rd[2])
         IN  out' = [op |-> "decide", market |-> m, ml |-> ml, volatility |-> v,
                     rs |-> rd[1], rc |-> rd[2],
                     decision |-> r.decision, logged |-> r.logged,
                     verdicts |-> IF r.verified
                                  THEN [groq |-> c.groq, ollama |-> c.ollama,
                                        account |-> c.account]
                                  ELSE NoVerdicts]
    /\ UNCHANGED <<emergency_orders, config, last_signal, last_confidence, positions, holdings, now>>

\* TradeExecutor.execute called with a decision of one of its callers
\* (tick cycle, streaming loop, main cycle), over given answer domains
ExecutorCallOver(markets, sources, answers) ==
    /\ out = Idle
    /\ \E m \in markets, b \in sources, x \in answers :
         \E d \in CallerDecisions(m) :
            LET r == execute(World, d, b.avail, [x EXCEPT !.krw = b.krw], now)
            IN  /\ Len(r.w.pos) <= MaxRows
                /\ Install(r.w)
                /\ out' = [op |-> "execute", avail |-> b.avail, calls |-> <<r.call>>]
    /\ UNCHANGED <<emergency_orders, config, now>>

\* Every balance source with an exchange that answers, and every answer of the
\* exchange for a balance that passes the sizing gate (passed by the caller,
\* or read from the exchange)
ExecutorCall ==
    \/ ExecutorCallOver(Markets, BalanceSources, {AllGood})
    \/ ExecutorCallOver(Markets, SizedSources, ExecAnswers)

CadenceTrade == ExecutorCallOver(Traded, TradeSources, TradeAnswers)

\* check_and_manage_positions
PositionCheck ==
    /\ out = Idle
    /\ \E in \in ([prices : {QuoteTable(p) : p \in Prices \cup {0}}, feed : {"ok"},
                    x : CheckAnswers]
                  \cup [prices : {QuoteTable(0)}, feed : {"none", "raise"},
                        x : {NoRedis}]) :
         LET r == check_and_manage_positions(World, in.prices, in.feed,
                                             [i \in 1..Len(positions) |-> in.x], now)
         IN  /\ Install(r.w)
             /\ out' = [op |-> "check", feed |-> in.feed, prices |-> in.prices,
                         todo |-> open_rows(positions, 1), evals |-> r.evals,
                         calls |-> r.calls, raised |-> r.raised]
    /\ UNCHANGED <<emergency_orders, config, now>>

\* run_cycle lines 267-316
Reconcile ==
    /\ out = Idle
    /\ \E p \in SyncPrices \cup {0}, a \in AvgPrices :
         LET prices == QuoteTable(p)
             avgs == [m \in Markets |-> a]
             pos == reconcile(positions, holdings, prices, avgs, now, 1)
         IN  /\ Len(pos) <= MaxRows
             /\ positions' = pos
             /\ out' = [op |-> "reconcile", rows_pre |-> Len(positions),
                         prices |-> prices, avgs |-> avgs]
    /\ UNCHANGED <<emergency_orders, config, last_signal, last_confidence, holdings, now>>

\* scripts/sync_positions.py
SyncPositions ==
    /\ out = Idle
    /\ \E a \in AvgPrices :
         LET avgs == [m \in Markets |-> a]
             pos == sync_positions(positions, holdings, avgs, now)
         IN  /\ Len(pos) <= MaxRows
             /\ positions' = pos
             /\ out' = [op |-> "sync", rows_pre |-> Len(positions), avgs |-> avgs]
    /\ UNCHANGED <<emergency_orders, config, last_signal, last_confidence, holdings, now>>

\* run_tick_cycle
TickCycle ==
    /\ out = Idle
    /\ \E in \in TickInputs :
         \E r \in {run_tick_cycle(config, World, in.feed, CadenceOrder, in.mls, in.krw,
                                  [m \in Markets |-> in.x], now)} :
             /\ Len(r.w.pos) <= MaxRows
             /\ Install(r.w)
             /\ out' = [op |-> "tick", ran |-> r.ran, krw |-> in.krw, feeds |-> in.mls,
                         trace |-> Phase("signal", r.calls), direct |-> << >>]
    /\ UNCHANGED <<emergency_orders, config, now>>

\* run_emergency_check
EmergencyCheck ==
    /\ out = Idle
    /\ \E in \in EmergencyInputs :
         \E r \in {run_emergency_check(config, World, in.feed, CadenceOrder, in.metrics,
                                       [m \in Markets |-> in.x], now)} :
             /\ Install(r.w)
             /\ out' = [op |-> "emergency", trace |-> << >>, direct |-> r.orders,
                         before |-> World, ordered_before |-> emergency_orders]
             /\ emergency_orders' =
                    [m \in Markets |->
                        IF \E k \in 1..Len(r.orders) : r.orders[k].market = m
                        THEN now ELSE emergency_orders[m]]
    /\ UNCHANGED <<config, now>>

\* run_cycle
MainCycle ==
    /\ out = Idle
    /\ \E in \in CycleInputs :
         \E r \in {run_cycle(config, World, in, now)} :
             /\ Len(r.w.pos) <= MaxRows
             /\ Install(r.w)
             /\ out' = [op |-> "cycle", steps |-> r.steps, inserted |-> r.inserted,
                         krw |-> in.krw, feeds |-> in.f,
                         open_pre |-> open_rows(positions, 1),
                         trace |-> r.trace, direct |-> << >>]
    /\ UNCHANGED <<emergency_orders, config, now>>

\* No message was handled in this turn of the loop
NoEvent ==
    [kind |-> "none", market |-> "none", price |-> 0, signal |-> "HOLD", rule |-> "none",
     basis |-> 0, held |-> Unloaded, stored |-> Unloaded, peak |-> NoPeak, calls |-> << >>]

\* run_pump_detection_loop up to the while statement (lines 717-792): the
\* mode, the candles cached per market (none in the momentum mode), the OPEN
\* rows loaded once, a fresh PumpPredictor, the websocket connection.  A
\* connection that raises ends the session in the except and finally blocks.
StreamStartOver(markets) ==
    /\ out = Idle
    /\ \E option \in StrategyOptions, cached \in BOOLEAN, connect \in {"ok", "raise"} :
         out' = [op |-> "stream",
                 mode |-> strategy_mode(option),
                 dfs |-> [m \in Markets |->
                            strategy_mode(option) = "breakout_strategy"
                            /\ cached /\ m \in markets],
                 pc |-> IF connect = "ok" THEN "check" ELSE "returned",
                 db |-> IF connect = "ok" THEN "open" ELSE "closed",
                 elapsed |-> 0, waited |-> 0,
                 monitored |-> monitored_positions(positions),
                 cache |-> [i \in 1..MaxRows |->
                              IF i <= Len(positions) /\ positions[i].status = "OPEN"
                              THEN positions[i] ELSE Unloaded],
                 high |-> [m \in Markets |-> NoMark],
                 last |-> NoEvent]
    /\ UNCHANGED <<emergency_orders, config, last_signal, last_confidence, positions, holdings, now>>

\* while time.time() - start_time < 55 (line 794); past the budget the loop
\* is left, the websocket and the database session are closed (lines 998,
\* 1003)
StreamLoop ==
    /\ out.op = "stream" /\ out.pc = "check"
    /\ out' = IF out.elapsed < session_budget
              THEN [out EXCEPT !.pc = "recv", !.waited = 0, !.last = NoEvent]
              ELSE [out EXCEPT !.pc = "returned", !.db = "closed"]
    /\ UNCHANGED <<emergency_orders, config, last_signal, last_confidence, positions, holdings, now>>

\* A message arrives and is handled (lines 797, 804-996).
StreamMessageOver(markets, prices) ==
    /\ out.op = "stream" /\ out.pc = "recv"
    /\ \E msg \in StreamMessages(markets, prices) :
         \E existing \in (IF OpenOf(positions, msg.market) = {} THEN {0}
                          ELSE OpenOf(positions, msg.market)) :
            \E r \in {on_message(out, World, msg, existing, now)} :
               /\ Len(r.w.pos) <= MaxRows
               /\ Install(r.w)
               /\ out' = IF r.raised
                         THEN [r.s EXCEPT !.pc = "returned", !.db = "closed", !.waited = 0]
                         ELSE [r.s EXCEPT !.pc = "check", !.waited = 0]
    /\ UNCHANGED <<emergency_orders, config, now>>

\* asyncio.TimeoutError (lines 798-799): back to the while test
StreamTimeout ==
    /\ out.op = "stream" /\ out.pc = "recv"
    /\ recv_timed_out(out.waited)
    /\ out' = [out EXCEPT !.pc = "check", !.waited = 0]
    /\ UNCHANGED <<emergency_orders, config, last_signal, last_confidence, positions, holdings, now>>

\* Any other exception of the receive (lines 800-802): break
StreamRecvError ==
    /\ out.op = "stream" /\ out.pc = "recv"
    /\ out' = [out EXCEPT !.pc = "returned", !.db = "closed", !.waited = 0]
    /\ UNCHANGED <<emergency_orders, config, last_signal, last_confidence, positions, holdings, now>>

\* Wall-clock time passes during a session.  time.time() - start_time is
\* compared with the budget only and the timer of wait_for with the timeout
\* only, so they are kept up to the budget and up to the timeout.
StreamClockOver(steps) ==
    /\ out.op = "stream" /\ out.pc # "returned"
    /\ out.elapsed < session_budget
    /\ \E d \in steps :
         out' = [out EXCEPT !.elapsed = Min(@ + d, session_budget),
                            !.waited = IF out.pc = "recv" THEN Min(@ + d, recv_timeout)
                                       ELSE @]
    /\ UNCHANGED <<emergency_orders, config, last_signal, last_confidence, positions, holdings, now>>

\* The coroutine has returned; the loop can be entered again.
StreamReturn ==
    /\ out.op = "stream" /\ out.pc = "returned"
    /\ out' = Idle
    /\ UNCHANGED <<emergency_orders, config, last_signal, last_confidence, positions, holdings, now>>

\* run_cycle in its own worker, beside the loop
ConcurrentCycle ==
    /\ \E in \in StreamCycleInputs :
         \E r \in {run_cycle(config, World, in, now)} :
             /\ Len(r.w.pos) <= MaxRows
             /\ r.w # World
             /\ Install(r.w)
    /\ UNCHANGED <<emergency_orders, config, now, out>>

\* run_cycle lines 413-470 on its own: the sizing of a non-HOLD signal of the
\* enhanced engine
SizeDecision ==
    /\ out = Idle
    /\ \E action \in {"BUY", "SELL"}, confidence \in SizingConfidences,
          atr \in AtrValues, close \in ClosePrices :
         out' = [op |-> "size", action |-> action, confidence |-> confidence,
                 atr |-> atr, close |-> close,
                 investment_ratio |-> enhanced_ratio(action, confidence),
                 levels |-> risk_levels(atr, close, confidence)]
    /\ UNCHANGED <<emergency_orders, config, last_signal, last_confidence, positions, holdings, now>>

\* ReversalTradingStrategy.analyze on its own
ReversalAnalyze ==
    /\ out = Idle
    /\ \E rows \in {14, 15, 20}, price \in ReversalPrices, rsi \in RsiValues :
         out' = [op |-> "reversal", rows |-> rows, price |-> price, rsi |-> rsi,
                 signal |-> reversal_analyze(rows, price, rsi, 1020, 980, 1000)]
    /\ UNCHANGED <<emergency_orders, config, last_signal, last_confidence, positions, holdings, now>>

\* A predictor is built (line 52-55) and fed at a steady rate.
TickFeedStart ==
    /\ out = Idle
    /\ \E rate \in TickRates :
         out' = [op |-> "ticks", rate |-> rate, clock |-> 0, sent |-> 0,
                 price_history |-> <<>>]
    /\ UNCHANGED <<emergency_orders, config, last_signal, last_confidence, positions, holdings, now>>

\* One tick of the feed reaches update_tick.
UpdateTick ==
    /\ out.op = "ticks"
    /\ out.sent < out.rate
    /\ out' = [out EXCEPT !.sent = @ + 1,
                           !.price_history = update_tick(@, out.clock, 1000, 1)]
    /\ UNCHANGED <<emergency_orders, config, last_signal, last_confidence, positions, holdings, now>>

\* A second passes once its ticks are delivered.
TickSecond ==
    /\ out.op = "ticks"
    /\ out.sent = out.rate
    /\ out.clock < MaxTickClock
    /\ out' = [out EXCEPT !.clock = @ + 1, !.sent = 0]
    /\ UNCHANGED <<emergency_orders, config, last_signal, last_confidence, positions, holdings, now>>

\* EnhancedTradingEngine._combine_signals on its own
CombineSignals ==
    /\ out = Idle
    /\ \E hybrid \in [action : LayerActions, confidence : LayerConfidences],
          multi_tf \in [action : LayerActions, confidence : LayerConfidences],
          rl \in RlOutputs, has_rl \in BOOLEAN :
         out' = [op |-> "combine", hybrid |-> hybrid, multi_tf |-> multi_tf, rl |-> rl,
                 has_rl |-> has_rl,
                 final |-> combine_signals(hybrid.action, hybrid.confidence,
                                           multi_tf.action, multi_tf.confidence,
                                           rl.action, rl.confidence, has_rl)]
    /\ UNCHANGED <<emergency_orders, config, last_signal, last_confidence, positions, holdings, now>>

\* BreakoutTradingStrategy.analyze on its own
BreakoutAnalyze ==
    /\ out = Idle
    /\ \E rows \in {49, 50}, current \in BreakoutCandles, prev \in PrevCandles,
          recent_high \in RecentHighs :
         out' = [op |-> "breakout", rows |-> rows, current |-> current, prev |-> prev,
                 recent_high |-> recent_high,
                 signal |-> breakout_analyze(rows, current, prev, recent_high)]
    /\ UNCHANGED <<emergency_orders, config, last_signal, last_confidence, positions, holdings, now>>

\* The operation returns to its scheduler.
Return ==
    /\ out # Idle
    /\ out' = Idle
    /\ UNCHANGED <<emergency_orders, config, last_signal, last_confidence, positions, holdings, now>>

----------------------------------------------------------------------------
(* Specifications *)

\* The life of the position rows: every writer of trade_positions, the
\* exchange and time
Next ==
    \/ Tick
    \/ AccountTransfer
    \/ CadenceTrade
    \/ PositionCheck
    \/ Reconcile
    \/ SyncPositions
    \/ Return

Spec == Init /\ [][Next]_vars

\* The executor alone, against every answer of the exchange
NextExec == ExecutorCall \/ ExchangeTransfer \/ Return

SpecExec == Init /\ [][NextExec]_vars

\* decide alone, over every stored filter state
NextDecide == Decide \/ StoreSignal \/ ExpireKey \/ SetConfig \/ Return

SpecDecide == Init /\ [][NextDecide]_vars

\* The filter alone, over every stored state
NextFilter == FilterQuery \/ StoreSignal \/ ExpireKey \/ Return

SpecFilter == Init /\ [][NextFilter]_vars

\* The scheduled cadences on one account
NextCadence ==
    SetConfig \/ AccountTransfer \/ TickCycle \/ EmergencyCheck \/ MainCycle \/ Return

SpecCadence == Init /\ [][NextCadence]_vars

\* The streaming loop on the traded market, beside the main cycle
StreamClockSteps == {28}

StreamStart == StreamStartOver(Traded)

StreamMessage == StreamMessageOver(Traded, StreamPrices)

StreamClock == StreamClockOver(StreamClockSteps)

NextStream ==
    \/ StreamStart
    \/ StreamLoop
    \/ StreamMessage
    \/ StreamTimeout
    \/ StreamRecvError
    \/ StreamClock
    \/ StreamReturn
    \/ ConcurrentCycle

SpecStream == Init /\ [][NextStream]_vars

\* One session of the loop second by second, on the traded market; the
\* process runs and time passes, messages and errors may or may not come
SessionStart == StreamStartOver(Traded)

SessionMessage == StreamMessageOver(Traded, {1000})

SessionClock == StreamClockOver({1})

NextSession ==
    \/ SessionStart
    \/ StreamLoop
    \/ SessionMessage
    \/ StreamTimeout
    \/ StreamRecvError
    \/ SessionClock
    \/ StreamReturn

SpecSession ==
    /\ Init
    /\ [][NextSession]_vars
    /\ WF_vars(StreamLoop)
    /\ WF_vars(StreamTimeout)
    /\ WF_vars(SessionClock)

\* The sizing and signal functions of the main cycle, each on its own
NextSignals ==
    \/ SizeDecision
    \/ ReversalAnalyze
    \/ TickFeedStart
    \/ UpdateTick
    \/ TickSecond
    \/ CombineSignals
    \/ BreakoutAnalyze
    \/ Return

SpecSignals == Init /\ [][NextSignals]_vars

----------------------------------------------------------------------------
(* Properties of SignalFilter.should_allow_trade (SpecFilter) *)

\* The stored state of the market a filter query was about
StoredSignal == last_signal[out.market]
StoredConfidence ==
    IF last_confidence[out.market] = NoKey THEN 0 ELSE last_confidence[out.market]

\* C4: every direction change is allowed: with a stored last signal X in
\* {BUY, SELL} and a new non-HOLD signal different from X, the answer is
\* "allow" for every new confidence and every stored confidence.
C4_ReversalAlwaysAllowed ==
    out.op = "filter" =>
        (StoredSignal \in {"BUY", "SELL"} /\ out.signal # "HOLD"
         /\ out.signal # StoredSignal
            => out.result.allowed)

\* A SELL at the lowest confidence after a BUY stored at 0.92 was allowed.
C4_Witness ==
    /\ out.op = "filter" /\ out.rs /\ out.rc
    /\ StoredSignal = "BUY" /\ StoredConfidence = 92
    /\ out.signal = "SELL" /\ out.confidence = 69
    /\ out.result.allowed /\ out.result.reason = "reversal"

\* The table of repeated signals
RepeatedSignalRule ==
    IF StoredConfidence >= 90 THEN ~out.result.allowed
    ELSE IF out.signal = "BUY" THEN out.result.allowed <=> out.confidence >= 70
    ELSE out.result.allowed <=> out.confidence >= 75

C6_HoldNeverFirstAlways ==
    out.op = "filter" =>
        /\ out.signal = "HOLD" => ~out.result.allowed
        /\ out.signal # "HOLD" /\ StoredSignal = NoSignal => out.result.allowed

\* A HOLD was rejected for a market with no record.
C6_Witness ==
    /\ out.op = "filter" /\ out.rs /\ out.rc
    /\ StoredSignal = NoSignal /\ out.signal = "HOLD"
    /\ ~out.result.allowed

----------------------------------------------------------------------------
(* Properties of TradingEngine.decide (SpecDecide) *)

\* C1: whenever the guard condition holds (volatility > 0.95 or emergency
\* score > 0.92), the system is active and the ML confidence is non-zero,
\* decide returns an approved SELL with investment_ratio 1.0 and emergency
\* set, for every ML action and every stored filter state.
C1_EmergencyOverridesFilter ==
    out.op = "decide" /\ config = "active" /\ out.ml.confidence # 0
    /\ tripped(out.ml.emergency_score, out.volatility)
        => /\ out.decision.approved
           /\ out.decision.action = "SELL"
           /\ out.decision.investment_ratio = 100
           /\ out.decision.emergency

----------------------------------------------------------------------------
(* Properties of TradeExecutor.execute (SpecExec) *)

\* The executor call an "execute" record is about
TheCall == out.calls[1]

ApprovedCall(action) ==
    out.op = "execute" /\ TheCall.decision.approved /\ TheCall.decision.action = action

\* C2: on an approved SELL, when the exchange reports a held balance > 0,
\* exactly one market sell order is placed, for the entire held balance,
\* whatever the available KRW balance is.
\* (The coins are held; the exchange reports them when it is asked, and a call
\* stopped at the sizing gate never asks.)
C2_SellPlacesOneOrderForAllHeld ==
    ApprovedCall("SELL") /\ TheCall.held > 0
    /\ (TheCall.bal = "value" \/ TheCall.gate = "skip")
        => TheCall.orders = <<[side |-> "SELL", market |-> TheCall.decision.market,
                               qty |-> TheCall.held]>>

C10_UnconfirmedSellChangesNothing ==
    ApprovedCall("SELL") /\ TheCall.balance_amount > 0 /\ TheCall.result # "uuid"
        => /\ TheCall.open_post = TheCall.open_pre
           /\ TheCall.signal_post = TheCall.signal_pre
           /\ TheCall.confidence_post = TheCall.confidence_pre

----------------------------------------------------------------------------
(* Properties of the position rows (Spec) *)

\* C7: the stop_loss of an OPEN position never decreases, whatever operation
\* runs: the tightening and trailing rules only write a higher value and no
\* other operation lowers it.
C7_StopLossNeverDecreases ==
    [][\A i \in 1..Len(positions) :
          positions[i].status = "OPEN"
              => /\ i <= Len(positions')
                 /\ positions'[i].stop_loss >= positions[i].stop_loss]_vars

\* A pass at -2% met an OPEN row whose stop had been trailed up to the
\* break-even price: the tightening value (price * 0.995) is lower and was
\* not written.
C7_Witness ==
    /\ out.op = "check"
    /\ \E k \in 1..Len(out.evals) :
          LET e == out.evals[k] IN
          /\ e.before.status = "OPEN"
          /\ e.before.stop_loss = e.before.entry_price * 1002
          /\ e.price * 995 < e.before.stop_loss
          /\ pnl_at_most(e.price, e.before.entry_price, -15)
          /\ ~pnl_at_most(e.price, e.before.entry_price, -25)
          /\ e.after.stop_loss = e.before.stop_loss

\* The first matching exit rule of an evaluation, in the claimed order, with
\* the stop as it stands after the two adjustments
FirstMatchingRule(e) ==
    IF pnl_at_most(e.price, e.before.entry_price, -25) THEN "loss_cut"
    ELSE IF pnl_at_most(e.price, e.before.entry_price, -35) THEN "hard_stop"
    ELSE IF e.price * 1000 <= e.after.stop_loss THEN "stop_loss"
    ELSE IF e.price * 1000 >= e.before.take_profit THEN "take_profit"
    ELSE IF e.clock - e.before.created_at > max_position_hold_minutes THEN "time_limit"
    ELSE "none"

EvaluatedAsClaimed(e) ==
    /\ e.rule = FirstMatchingRule(e)
    /\ IF e.rule = "none" THEN e.calls = << >>
       ELSE /\ Len(e.calls) = 1
            /\ e.calls[1].decision.approved
            /\ e.calls[1].decision.action = "SELL"
            /\ e.calls[1].decision.market = e.before.market
            /\ e.calls[1].decision.investment_ratio = 100
            /\ e.calls[1].decision.rationale = e.rule

\* C8: in a pass with prices, every OPEN position whose market has a price is
\* evaluated once, the exit rules are tested in the order loss cut, hard
\* stop, stop-loss breach, take-profit, time limit, and exactly one full-size
\* SELL decision is issued iff some rule matches, that of the first one.
C8_ExitRulesInOrder ==
    out.op = "check" /\ out.feed = "ok" =>
        \A j \in 1..Len(out.todo) :
            out.prices[positions[out.todo[j]].market] # 0 =>
                /\ Cardinality({k \in 1..Len(out.evals) :
                                   out.evals[k].row = out.todo[j]}) = 1
                /\ \A k \in 1..Len(out.evals) :
                      out.evals[k].row = out.todo[j] => EvaluatedAsClaimed(out.evals[k])

\* C9: a row that is CLOSED stays CLOSED through every operation, and rows are
\* never removed or moved: a later fill or reconciliation adds a row.
C9_ClosedIsTerminal ==
    [][\A i \in 1..Len(positions) :
          /\ i <= Len(positions')
          /\ positions'[i].market = positions[i].market
          /\ positions[i].status = "CLOSED" => positions'[i].status = "CLOSED"]_vars

\* A reconciliation found coins held for a market whose only row is CLOSED
\* and inserted a second, OPEN row.
C9_Witness ==
    /\ out.op = "reconcile" /\ out.rows_pre = 1
    /\ Len(positions) = 2
    /\ positions[1].status = "CLOSED" /\ positions[2].status = "OPEN"
    /\ positions[1].market = positions[2].market

----------------------------------------------------------------------------
(* Further properties of TradeExecutor.execute (SpecExec) *)

\* C11: on an approved BUY that passes the sizing gate, a Position row is
\* added and the filter keys change only when the order is confirmed: the row
\* is OPEN with stop_loss = price * (1 - max_loss_acceptable) and take_profit
\* = price * (1 + take_profit_target), the keys become (BUY,
\* decision.confidence); when the order is rejected or raises no row is added
\* and the keys are as before.
C11_BuyWritesOnlyWhenConfirmed ==
    ApprovedCall("BUY") /\ TheCall.gate = "pass" =>
        /\ TheCall.result # "uuid" =>
              /\ TheCall.after.pos = TheCall.before.pos
              /\ TheCall.signal_post = TheCall.signal_pre
              /\ TheCall.confidence_post = TheCall.confidence_pre
        /\ TheCall.after.pos # TheCall.before.pos =>
              /\ TheCall.result = "uuid"
              /\ TheCall.after.pos =
                    Append(TheCall.before.pos,
                           [market |-> TheCall.decision.market,
                            entry_price |-> TheCall.fill,
                            stop_loss |-> TheCall.fill
                                * (1000 - TheCall.decision.max_loss_acceptable),
                            take_profit |-> TheCall.fill
                                * (1000 + TheCall.decision.take_profit_target),
                            status |-> "OPEN", created_at |-> now])
        /\ TheCall.signal_post # TheCall.signal_pre =>
              TheCall.result = "uuid" /\ TheCall.signal_post = "BUY"
        /\ TheCall.confidence_post # TheCall.confidence_pre =>
              /\ TheCall.result = "uuid"
              /\ TheCall.confidence_post = TheCall.decision.confidence

\* A confirmed BUY added its row and set the keys of a market that had none.
C11_Witness ==
    /\ ApprovedCall("BUY") /\ TheCall.result = "uuid"
    /\ TheCall.rows_post = TheCall.rows_pre + 1
    /\ TheCall.signal_pre = NoSignal /\ TheCall.signal_post = "BUY"
    /\ TheCall.confidence_post = TheCall.decision.confidence

C13_UnapprovedIsNoOp ==
    out.op = "execute" /\ ~TheCall.decision.approved =>
        /\ TheCall.gate = "noop"
        /\ TheCall.queries = {}
        /\ TheCall.orders = << >>
        /\ TheCall.after = TheCall.before
        /\ World = TheCall.before
        /\ ~TheCall.logged /\ TheCall.entries = << >>
        /\ TheCall.returns = "normal"

\* An unapproved BUY was handed over without a balance, where an approved
\* one queries the exchange.
C13_Witness ==
    /\ out.op = "execute" /\ ~TheCall.decision.approved
    /\ TheCall.decision.action = "BUY" /\ TheCall.avail = NoBalance
    /\ TheCall.gate = "noop" /\ TheCall.before.pos # << >>

\* C14: every call with an approved decision appends exactly one trade-log
\* entry, carrying the decision's rationale and sizing parameters, whatever
\* the outcome.
C14_ApprovedCallLogsOnce ==
    out.op = "execute" /\ TheCall.decision.approved =>
        /\ Len(TheCall.entries) = 1
        /\ TheCall.entries[1].reason = TheCall.decision.rationale
        /\ TheCall.entries[1].investment_ratio = TheCall.decision.investment_ratio
        /\ TheCall.entries[1].max_loss_acceptable = TheCall.decision.max_loss_acceptable
        /\ TheCall.entries[1].take_profit_target = TheCall.decision.take_profit_target

\* The answers the call met
TheAnswers ==
    Answer(TheCall.krw, TheCall.answer, TheCall.bal, TheCall.quote, TheCall.fill,
           TheCall.redis, TheCall.db, TheCall.log)

----------------------------------------------------------------------------
(* Properties of the reconciliation (Spec) *)

\* C18: a reconciliation run directly after a reconciliation, against the
\* same exchange balances and prices, inserts, updates and closes nothing;
\* this for the cycle's reconciliation and for sync_positions.
C18_ReconcileTwiceWritesOnce ==
    /\ out.op = "reconcile" =>
          reconcile(positions, holdings, out.prices, out.avgs, now, 1) = positions
    /\ out.op = "sync" =>
          sync_positions(positions, holdings, out.avgs, now) = positions

\* C19: after the cycle's reconciliation every holding worth more than the
\* minimum has an OPEN row, and no row is OPEN for a market of which nothing
\* is held.
C19_ReconcilesBothDirections ==
    out.op = "reconcile" =>
        \A m \in Markets :
            /\ holdings[m] * out.prices[m] > min_holding_value
                  => OpenOf(positions, m) # {}
            /\ holdings[m] = 0 => OpenOf(positions, m) = {}

----------------------------------------------------------------------------
(* Properties of the scheduled cadences (SpecCadence) *)

\* C16: every order a cadence sends to the exchange is sent by
\* TradeExecutor.execute; no cadence sends an order by another component.
C16_OnlyExecutorPlacesOrders ==
    out.op \in {"tick", "cycle", "emergency"} => out.direct = << >>

\* C17: an order placed for a decision of the signal phase of a cadence was
\* allowed by should_allow_trade for the keys stored when the call was made.
C17_SignalOrdersPassTheFilter ==
    out.op \in {"tick", "cycle"} =>
        \A k \in 1..Len(out.trace) :
            LET e == out.trace[k] IN
            e.phase = "signal" /\ e.call.orders # << >> =>
                should_allow_trade(e.call.before.ls, e.call.before.lc,
                                   e.call.decision.market, e.call.decision.action,
                                   e.call.decision.confidence, TRUE, TRUE).allowed

\* C20: a main cycle that gets as far as trading runs reconciliation, then the
\* exit evaluation of the OPEN rows, then the signal loop: every executor call
\* of an exit rule is made before every executor call of a signal, so no
\* signal BUY is ordered before an exit SELL of the cycle.
C20_ExitsBeforeSignals ==
    out.op = "cycle" /\ out.steps # << >> =>
        /\ out.steps = <<"reconcile", "risk_exit", "signals">>
        /\ \A i \in 1..Len(out.trace), j \in 1..Len(out.trace) :
              i < j => ~(out.trace[i].phase = "signal" /\ out.trace[j].phase = "exit")

\* A cycle sold a row on an exit rule and then bought on a signal.
C20_Witness ==
    /\ out.op = "cycle" /\ Len(out.trace) = 2
    /\ out.trace[1].phase = "exit" /\ out.trace[1].call.orders # << >>
    /\ out.trace[1].call.orders[1].side = "SELL"
    /\ out.trace[2].phase = "signal" /\ out.trace[2].call.orders # << >>
    /\ out.trace[2].call.orders[1].side = "BUY"

----------------------------------------------------------------------------
(* Properties of the verifier branch of TradingEngine.decide (SpecDecide) *)

\* C27: when decide asks the verifiers, the decision is the "Both LLMs
\* rejected" veto exactly when both verdicts are explicit rejections; and when
\* a verdict is unknown the decision carries the ML action, is approved iff
\* that action is not HOLD, and is sized by the confidence ladder with the
\* default stop and target, never by the verifier's sizing.
C27_UnknownFallsBackToMl ==
    out.op = "decide" /\ out.verdicts # NoVerdicts =>
        LET v == out.verdicts
            d == out.decision
            confidence == Max(out.ml.buy, out.ml.sell)
        IN  /\ (d.rationale = "Both LLMs rejected") = (v.groq = "no" /\ v.ollama = "no")
            /\ v.groq = "unknown" \/ v.ollama = "unknown" =>
                  /\ d.action = ml_action(out.ml)
                  /\ d.approved = (ml_action(out.ml) # "HOLD")
                  /\ d.confidence = confidence
                  /\ d.investment_ratio = auto_ratio(confidence)
                  /\ d.max_loss_acceptable = 30 /\ d.take_profit_target = 50

\* One verifier rejected, the other timed out, and the ML BUY was approved.
C27_Witness ==
    /\ out.op = "decide"
    /\ out.verdicts.groq = "unknown" /\ out.verdicts.ollama = "no"
    /\ out.decision.approved /\ out.decision.action = "BUY"
    /\ out.decision.investment_ratio = auto_ratio(out.decision.confidence)

----------------------------------------------------------------------------
(* Properties of the position check's error handling (Spec) *)

\* C23: in a pass of the position check that got its prices, every OPEN row
\* that has a price and whose own evaluation does not raise (its entry_price
\* is not zero) is evaluated against the exit rules, whatever happened to the
\* rows before it.
C23_PositionErrorsAreIsolated ==
    out.op = "check" /\ out.feed = "ok" =>
        \A k \in 1..Len(out.todo) :
            LET i == out.todo[k] IN
            out.prices[positions[i].market] # 0 /\ positions[i].entry_price # 0
                => \E j \in 1..Len(out.evals) : out.evals[j].row = i

----------------------------------------------------------------------------
(* Properties of one run of a cadence (SpecCadence) *)

\* What an executor call of a run did to the KRW balance of the account: a
\* confirmed BUY spends its amount, a confirmed SELL brings the coins' value
BalanceChange(c) ==
    IF c.orders = << >> \/ c.answer # "ok" THEN 0
    ELSE IF c.orders[1].side = "BUY" THEN 0 - (c.amount \div 1000)
    ELSE c.orders[1].qty * c.fill

\* The KRW balance of the account when call k of the run is made
RECURSIVE BalanceBefore(_, _, _)
BalanceBefore(trace, krw, k) ==
    IF k <= 1 THEN krw
    ELSE BalanceBefore(trace, krw, k - 1) + BalanceChange(trace[k - 1].call)

\* C21: every order of the signal phase of a main cycle or tick cycle is
\* sized from the KRW balance the account has when the order is sized: the
\* balance at the start of the run, changed by the orders the run placed
\* before.
C21_SizedFromFreshBalance ==
    out.op \in {"cycle", "tick"} =>
        \A k \in 1..Len(out.trace) :
            out.trace[k].phase = "signal" /\ out.trace[k].call.orders # << >>
                => out.trace[k].call.available = BalanceBefore(out.trace, out.krw, k)

\* C22: in a main cycle or tick cycle that reaches its loop over the markets,
\* every market that has its data and raises nothing is handed to the
\* executor (in the tick cycle: when its signal is not HOLD and reaches
\* tick_min_confidence), whatever happened to the markets before it.
C22_MarketErrorsAreIsolated ==
    /\ out.op = "cycle" /\ out.steps # << >> =>
          \A m \in Markets :
              out.feeds[m].data /\ out.feeds[m].fault = "none"
                  => \E k \in 1..Len(out.trace) :
                        /\ out.trace[k].phase = "signal"
                        /\ out.trace[k].call.decision.market = m
    /\ out.op = "tick" /\ out.ran =>
          \A m \in Markets :
              (/\ out.feeds[m].data /\ out.feeds[m].fault = "none"
               /\ ml_action(out.feeds[m]) # "HOLD"
               /\ Max(out.feeds[m].buy, out.feeds[m].sell) >= tick_min_confidence)
                  => \E k \in 1..Len(out.trace) :
                        out.trace[k].call.decision.market = m

\* The predictor raised for the first market of a tick and the BUY of the
\* market after it was ordered.
C22_Witness ==
    /\ out.op = "tick" /\ out.ran
    /\ out.feeds[CadenceOrder[1]].fault # "none"
    /\ Len(out.trace) = 1
    /\ out.trace[1].call.decision.market = CadenceOrder[2]
    /\ out.trace[1].call.orders # << >>

\* C24: a main cycle that starts with OPEN rows runs the position check,
\* also when the balances fetch at its start fails.
C24_EveryCycleChecksPositions ==
    out.op = "cycle" /\ out.open_pre # << >> =>
        \E k \in 1..Len(out.steps) : out.steps[k] = "risk_exit"

\* C29: no market has two OPEN rows.
C29_OneOpenRowPerMarket ==
    \A m \in Markets : Cardinality(OpenOf(positions, m)) <= 1

\* C30: a cadence that runs while the AutoTradingConfig row is absent or
\* inactive places no order.
C30_InactiveMeansNoOrders ==
    config # "active" /\ out.op \in {"tick", "cycle", "emergency"} =>
        /\ out.direct = << >>
        /\ \A k \in 1..Len(out.trace) : out.trace[k].call.orders = << >>


----------------------------------------------------------------------------
(* Properties of one session of the streaming loop (SpecSession) *)

\* C25: a session that has started always comes to its end: no receive is
\* begun once 55 seconds have elapsed since the start, and the session
\* returns with its database session closed.
C25_SessionTerminates ==
    /\ [][out.op = "stream" /\ out'.op = "stream" /\ out.pc # "recv" /\ out'.pc = "recv"
           => out.elapsed < session_budget]_vars
    /\ [](out.op = "stream" /\ out.pc = "returned" => out.db = "closed")
    /\ (out.op = "stream") ~> (out.op = "stream" /\ out.pc = "returned")

\* A session that waited out its budget and returned
C25_Witness ==
    /\ out.op = "stream" /\ out.pc = "returned" /\ out.db = "closed"
    /\ out.elapsed >= session_budget

----------------------------------------------------------------------------
(* Properties of the streaming loop beside the main cycle (SpecStream) *)

\* C26: detect_peak is never called with a high-water mark that was set
\* before the loop closed a position of the market.
C26_MarkClearedOnClose ==
    out.op = "stream" /\ out.last.peak.called => ~out.last.peak.mark.carried

\* C28: a stop-loss, take-profit or peak SELL of the loop is decided on a row
\* that is OPEN in the table and whose stop is the one in the table.
C28_NoSellOnStaleRow ==
    out.op = "stream" /\ out.last.rule \in {"stop_loss", "take_profit", "peak"}
    => /\ out.last.stored.status = "OPEN"
       /\ out.last.stored.stop_loss = out.last.held.stop_loss


\* C31: an emergency check sends no order for a market for which an
\* emergency check sent one less than cooldown_minutes before.
C31_OneEmergencyTradePerWindow ==
    out.op = "emergency"
    => \A k \in 1..Len(out.direct) :
          \/ out.ordered_before[out.direct[k].market] = NoOrder
          \/ now - out.ordered_before[out.direct[k].market] >= cooldown_minutes


\* The exit rule that is due for a stored row at a price: the loss cut, or
\* the breach found after the two stop adjustments
DueRule(row, price, clock) ==
    IF pnl_at_most(price, row.entry_price, -25) THEN "loss_cut"
    ELSE LET t1 == [row EXCEPT !.stop_loss = tightened_stop(row, price)]
             t2 == [t1 EXCEPT !.stop_loss = trailed_stop(t1, price)]
         IN  breach_rule(t2, price, clock)

\* C32: in a position check, every row that was OPEN at its start, has a
\* price, is older than max_position_hold_minutes and matches no earlier
\* exit rule is handed to the executor as a full-size SELL.
C32_OldPositionsAreSold ==
    out.op = "check" /\ out.feed = "ok" /\ max_position_hold_minutes > 0
    => \A k \in 1..Len(out.todo) :
          LET i == out.todo[k]
              row == positions[i]
              price == out.prices[row.market]
          IN  (price > 0 /\ row.entry_price > 0
               /\ DueRule(row, price, now) = "time_limit")
              => \E e \in 1..Len(out.evals) :
                    /\ out.evals[e].row = i
                    /\ out.evals[e].calls # << >>
                    /\ out.evals[e].calls[1].decision.action = "SELL"
                    /\ out.evals[e].calls[1].decision.investment_ratio = 100


----------------------------------------------------------------------------
(* Properties of the sizing and signal functions (SpecSignals) *)

\* C33: every sized decision has a target of at least twice its stop.
C33_TargetTwiceTheStop ==
    out.op = "size" => out.levels.take_profit >= 2 * out.levels.stop_loss


\* C34: the confidence of every signal of the mean-reversion layer lies
\* within [0, 1].
C34_ConfidenceWithinUnit ==
    out.op = "reversal" => out.signal.confidence >= 0 /\ out.signal.confidence <= 100


\* C35: the tick history of a market never holds more than
\* max_history_size samples.
C35_HistoryBounded ==
    out.op = "ticks" => Len(out.price_history) <= max_history_size


\* C36: for a non-HOLD ML signal the decision of the verifier branch is
\* monotone in the verdicts: a decision with an explicit rejection is not
\* approved, and a decision that is not approved stays so when one approving
\* verdict is replaced by an unknown one.
C36_VerifierMonotone ==
    out.op = "decide" /\ out.verdicts # NoVerdicts /\ ml_action(out.ml) # "HOLD" =>
        LET v == out.verdicts
            weaker == {w \in [groq : {"yes", "no", "unknown"}, ollama : {"yes", "no", "unknown"}] :
                          \/ v.groq = "yes" /\ w.groq = "unknown" /\ w.ollama = v.ollama
                          \/ v.ollama = "yes" /\ w.ollama = "unknown" /\ w.groq = v.groq}
        IN  /\ v.groq = "no" \/ v.ollama = "no" => ~out.decision.approved
            /\ ~out.decision.approved =>
                  \A w \in weaker :
                     ~decide_verified(out.market, out.ml, w.groq, w.ollama,
                                      v.account, LlmSizing).decision.approved


----------------------------------------------------------------------------
(* Properties of the exit rules of the position check (Spec) *)

\* C37: no SELL of the position check is issued by the hard stop rule: a
\* row whose PnL is at or under -3.5% is sold by the loss cut, and no
\* executor call of the pass carries the hard stop rationale.
C37_HardStopNeverFires ==
    out.op = "check" =>
        /\ \A j \in 1..Len(out.evals) :
              /\ out.evals[j].rule # "hard_stop"
              /\ pnl_at_most(out.evals[j].price, out.evals[j].before.entry_price, -35)
                    => out.evals[j].rule = "loss_cut"
        /\ \A k \in 1..Len(out.calls) : out.calls[k].decision.rationale # "hard_stop"

\* A row at or under -3.5% was sold by the loss cut.
C37_Witness ==
    /\ out.op = "check"
    /\ \E j \in 1..Len(out.evals) :
          /\ pnl_at_most(out.evals[j].price, out.evals[j].before.entry_price, -35)
          /\ out.evals[j].rule = "loss_cut"
          /\ out.evals[j].calls # << >>
          /\ out.evals[j].calls[1].decision.action = "SELL"


\* C38: the main cycle sizes a BUY by the confidence ladder (0.90 -> 0.40,
\* 0.85 -> 0.30, 0.75 -> 0.25, 0.65 -> 0.15, under it 0.10) and every SELL at
\* 1.0; the BUY ratio never decreases as the confidence rises.
C38_RatioLadder ==
    out.op = "size" =>
        LET c == out.confidence
            ratio == out.investment_ratio
        IN  /\ out.action = "SELL" => ratio = 100
            /\ out.action = "BUY" =>
                  /\ c >= 90 => ratio = 40
                  /\ c >= 85 /\ c < 90 => ratio = 30
                  /\ c >= 75 /\ c < 85 => ratio = 25
                  /\ c >= 65 /\ c < 75 => ratio = 15
                  /\ c < 65 => ratio = 10
                  /\ \A higher \in SizingConfidences :
                        higher >= c => enhanced_ratio("BUY", higher) >= ratio

\* A BUY sized exactly at a threshold of the ladder.
C38_Witness ==
    /\ out.op = "size" /\ out.action = "BUY"
    /\ out.confidence = 85 /\ out.investment_ratio = 30


\* C39: without an RL output the combiner answers from the two layers alone:
\* both HOLD give HOLD at 0.3; the same non-HOLD action gives that action at
\* min(0.95, average confidence x 1.2); one non-HOLD layer gives its action at
\* its confidence x 0.9; BUY against SELL gives the action of a layer of the
\* higher confidence at that confidence x 0.6; the vote of three layers is not
\* reached.
C39_TwoLayerCombination ==
    out.op = "combine" /\ (out.rl.action = NoRl \/ ~out.has_rl) =>
        LET h == out.hybrid
            m == out.multi_tf
            f == out.final
        IN  /\ f.path = "pair"
            /\ h.action = "HOLD" /\ m.action = "HOLD"
                  => f.action = "HOLD" /\ f.confidence = 300
            /\ h.action = m.action /\ h.action # "HOLD"
                  => /\ f.action = h.action
                     /\ f.confidence = Min(950, (h.confidence + m.confidence) * 6)
            /\ h.action # "HOLD" /\ m.action = "HOLD"
                  => f.action = h.action /\ f.confidence = h.confidence * 9
            /\ h.action = "HOLD" /\ m.action # "HOLD"
                  => f.action = m.action /\ f.confidence = m.confidence * 9
            /\ h.action # m.action /\ h.action # "HOLD" /\ m.action # "HOLD"
                  => /\ f.confidence = Max(h.confidence, m.confidence) * 6
                     /\ \/ f.action = h.action /\ h.confidence >= m.confidence
                        \/ f.action = m.action /\ m.confidence >= h.confidence

\* Two layers agreed on a BUY strongly enough for the cap to apply, with the
\* RL output missing.
C39_Witness ==
    /\ out.op = "combine" /\ out.rl.action = NoRl
    /\ out.hybrid.action = "BUY" /\ out.multi_tf.action = "BUY"
    /\ out.hybrid.confidence + out.multi_tf.confidence > 160
    /\ out.final.action = "BUY" /\ out.final.confidence = 950


\* C40: on a window of at least min_breakout_rows candles whose last candle
\* has RSI 25, a close over MA5 over MA20 and a volume over the surge
\* multiple of its 20-candle average, the breakout layer answers BUY with a
\* confidence of at least 0.7.  (The layer reads no MACD.)
C40_BreakoutBuysAtRsi25 ==
    /\ out.op = "breakout" /\ out.rows >= min_breakout_rows
    /\ out.current.rsi = 25
    /\ out.current.close > out.current.ma5 /\ out.current.ma5 > out.current.ma20
    /\ out.current.volume * 10 > out.current.vol_ma20 * vol_multiplier
    => out.signal.action = "BUY" /\ out.signal.confidence >= 70

====
